---- MODULE Spec2Model ----
(***************************************************************************)
(* A model of astrogo/fitsio: the Rows cursor over a Table, the Header     *)
(* container, the File orchestration with its stream encoder and decoder,  *)
(* the image payload codec and the binary-table row codec.                 *)
(*                                                                         *)
(* Each part of the library has its own specification over its own         *)
(* variables; the variables of the other parts stay at their idle value.   *)
(***************************************************************************)
EXTENDS Integers, Sequences, FiniteSets, TLC

VARIABLES
    rows,   \* the Rows cursor (rows.go: type Rows), or NoRows before ReadRange
    rtab,   \* the Table the cursor iterates over (nrows, ncols, unreadable rows)
    robs,   \* what the caller of the cursor has observed so far
    hdr,    \* a Header (its cards, in order)
    hobs,   \* the last Header call and what it returned
    objs,   \* the HDU values the program holds, by reference
    file,   \* a File obtained from Create: its HDU list and the bytes of its sink
    fobs,   \* the last call on the file or on an HDU and what it returned
    rfile,  \* the File that Open returned for the bytes of the sink
    iobs,   \* the pixels the program gave to Image.Write and got from Image.Read
    tobs    \* the rows the program gave to Table.Write and got from Rows.Scan

vars == <<rows, rtab, robs, hdr, hobs, objs, file, fobs, rfile, iobs, tobs>>

rowsVars == <<rows, rtab, robs>>

hdrVars == <<hdr, hobs>>

fileVars == <<objs, file, fobs>>

imgVars == <<rfile, iobs, tobs>>

\* The values of the variables a specification does not use.
NoRows == [open |-> FALSE]

NoObs == [op |-> "none"]

RowsIdle == rows = NoRows /\ rtab = [nrows |-> 0, ncols |-> 0, bad |-> {}] /\ robs = NoObs

HeaderIdle == hdr = [cards |-> <<>>] /\ hobs = [op |-> "none"]

FileIdle == objs = <<>> /\ file = [open |-> FALSE] /\ fobs = [err |-> "none"]

ImageIdle ==
    rfile = [open |-> FALSE] /\ iobs = [stage |-> "none"] /\ tobs = [written |-> <<>>]

----------------------------------------------------------------------------
(* Small helpers.                                                          *)

Max(a, b) == IF a >= b THEN a ELSE b

Min(a, b) == IF a <= b THEN a ELSE b

\* The nil error.
ErrNil == "nil"

----------------------------------------------------------------------------
(* Cards and the Header container: Header.Append, Header.prepend,          *)
(* Header.Get, Header.Set.                                                 *)

\* Bounds of the header model.
MaxCards == 4

MaxNew == 2

ErrDuplicate == "fitsio: duplicate Card"

ErrInvalidValue == "fitsio: invalid value type"

\* A card value: its Go type and its content.
NilV == [t |-> "nil", v |-> 0]

IntV(n) == [t |-> "int", v |-> n]

BoolV(b) == [t |-> "bool", v |-> b]

StrV(str) == [t |-> "string", v |-> str]

Card(name, value, comment) == [Name |-> name, Value |-> value, Comment |-> comment]

FreeForm == {"COMMENT", "HISTORY", ""}

SignedKinds == {"int", "int8", "int16", "int32", "int64"}

UnsignedKinds == {"uint", "uint8", "uint16", "uint32", "uint64"}

\* The value types Append's switch on the reflect kind accepts; big.Int is
\* the one struct it lets through.
AppendKinds ==
    SignedKinds \cup UnsignedKinds
        \cup {"float32", "float64", "complex64", "complex128", "string", "bool", "bigint"}

\* prepend's switch has no struct case.
PrependKinds == AppendKinds \ {"bigint"}

\* The width normalisation of a card value on Append and prepend.
Normalise(value) ==
    IF value.t \in SignedKinds \cup UnsignedKinds THEN [value EXCEPT !.t = "int"]
    ELSE IF value.t \in {"float32", "float64"} THEN [value EXCEPT !.t = "float64"]
    ELSE IF value.t \in {"complex64", "complex128"} THEN [value EXCEPT !.t = "complex128"]
    ELSE value

\* The names of the cards, the key set Append and prepend build on entry.
Keys(cards) == {cards[k].Name : k \in 1..Len(cards)}

RECURSIVE AppendLoop(_, _, _)
\* The loop of Header.Append over the new cards: `keys` is not updated as
\* cards are added, and the cards added before an error stay.
AppendLoop(keys, cards, new) ==
    IF new = <<>> THEN [cards |-> cards, err |-> ErrNil]
    ELSE LET card == Head(new)
         IN  IF card.Name \in keys
             THEN IF card.Name \in FreeForm
                  THEN AppendLoop(keys, Append(cards, card), Tail(new))
                  ELSE IF card.Name = "END"
                  THEN AppendLoop(keys, cards, Tail(new))
                  ELSE [cards |-> cards, err |-> ErrDuplicate]
             ELSE IF card.Value.t = "nil"
                  THEN AppendLoop(keys, Append(cards, card), Tail(new))
                  ELSE IF card.Value.t \notin AppendKinds
                  THEN [cards |-> cards, err |-> ErrInvalidValue]
                  ELSE AppendLoop(keys,
                                  Append(cards, [card EXCEPT !.Value = Normalise(@)]),
                                  Tail(new))

\* Header.Append(cards...): the cards of the header after the call and the
\* error returned.
HeaderAppend(cards, new) == AppendLoop(Keys(cards), cards, new)

RECURSIVE PrependLoop(_, _, _, _)
\* The loop of Header.prepend: a repeated free-form card goes to the end of
\* hdr.cards at once, the others are collected in hcards.
PrependLoop(keys, cards, hcards, new) ==
    IF new = <<>> THEN [cards |-> hcards \o cards, err |-> ErrNil]
    ELSE LET card == Head(new)
         IN  IF card.Name \in keys
             THEN IF card.Name \in FreeForm
                  THEN PrependLoop(keys, Append(cards, card), hcards, Tail(new))
                  ELSE IF card.Name = "END"
                  THEN PrependLoop(keys, cards, hcards, Tail(new))
                  ELSE [cards |-> cards, err |-> ErrDuplicate]
             ELSE IF card.Value.t = "nil"
                  THEN PrependLoop(keys, cards, Append(hcards, card), Tail(new))
                  ELSE IF card.Value.t \notin PrependKinds
                  THEN [cards |-> cards, err |-> ErrInvalidValue]
                  ELSE PrependLoop(keys, cards,
                                   Append(hcards, [card EXCEPT !.Value = Normalise(@)]),
                                   Tail(new))

\* Header.prepend(cards...)
HeaderPrepend(cards, new) == PrependLoop(Keys(cards), cards, <<>>, new)

\* Header.get: the index of the first card with the name, 0 when there is none.
HeaderIndex(cards, name) ==
    IF name \in Keys(cards)
    THEN CHOOSE k \in 1..Len(cards) :
            cards[k].Name = name /\ \A j \in 1..(k - 1) : cards[j].Name # name
    ELSE 0

\* Header.Get(name) # nil
HeaderHas(cards, name) == HeaderIndex(cards, name) # 0

\* Header.Get(name).Value, for a name the header has.
HeaderValue(cards, name) == cards[HeaderIndex(cards, name)].Value

\* Header.Set(name, value, comment): the first card of that name gets the
\* value and the comment as given; without one the card is appended and the
\* error dropped.
HeaderSet(cards, name, value, comment) ==
    IF HeaderHas(cards, name)
    THEN [cards EXCEPT ![HeaderIndex(cards, name)].Value = value,
                       ![HeaderIndex(cards, name)].Comment = comment]
    ELSE HeaderAppend(cards, <<Card(name, value, comment)>>).cards

\* The cards the header model draws its calls from.
CardPool ==
    { Card("A", [t |-> "int8", v |-> 1], ""), Card("A", [t |-> "float32", v |-> 2], ""),
      Card("B", [t |-> "uint16", v |-> 3], ""), Card("B", [t |-> "slice", v |-> 0], ""),
      Card("COMMENT", NilV, ""), Card("HISTORY", NilV, ""), Card("", NilV, ""),
      Card("END", NilV, ""), Card("C", [t |-> "bigint", v |-> 4], "") }

\* Two cards of one call share a name that is not free-form.
DupWithin(new) ==
    \E i, j \in 1..Len(new) :
        i < j /\ new[i].Name = new[j].Name /\ new[i].Name \notin FreeForm

\* A card of the call has the name of a card of the header, not free-form.
DupWith(cards, new) ==
    \E i \in 1..Len(new) : new[i].Name \in Keys(cards) /\ new[i].Name \notin FreeForm

CardLists == UNION { [1..n -> CardPool] : n \in 1..MaxNew }

InitHeader ==
    /\ RowsIdle
    /\ FileIdle
    /\ ImageIdle
    /\ hdr = [cards |-> <<>>]
    /\ hobs = [op |-> "new", err |-> ErrNil, dupnew |-> FALSE, dupold |-> FALSE]

\* hdr.Append(cards...)
DoAppend ==
    /\ hobs.op # "none"
    /\ \E new \in CardLists :
          /\ Len(hdr.cards) + Len(new) <= MaxCards
          /\ hdr' = [hdr EXCEPT !.cards = HeaderAppend(hdr.cards, new).cards]
          /\ hobs' = [op |-> "Append", err |-> HeaderAppend(hdr.cards, new).err,
                      dupnew |-> DupWithin(new), dupold |-> DupWith(hdr.cards, new)]
    /\ UNCHANGED rowsVars
    /\ UNCHANGED fileVars
    /\ UNCHANGED imgVars

\* hdr.prepend(cards...)
DoPrepend ==
    /\ hobs.op # "none"
    /\ \E new \in CardLists :
          /\ Len(hdr.cards) + Len(new) <= MaxCards
          /\ hdr' = [hdr EXCEPT !.cards = HeaderPrepend(hdr.cards, new).cards]
          /\ hobs' = [op |-> "prepend", err |-> HeaderPrepend(hdr.cards, new).err,
                      dupnew |-> DupWithin(new), dupold |-> DupWith(hdr.cards, new)]
    /\ UNCHANGED rowsVars
    /\ UNCHANGED fileVars
    /\ UNCHANGED imgVars

\* hdr.Set(name, value, comment)
DoSet ==
    /\ hobs.op # "none"
    /\ \E card \in CardPool :
          /\ Len(hdr.cards) + 1 <= MaxCards
          /\ hdr' = [hdr EXCEPT !.cards = HeaderSet(hdr.cards, card.Name, card.Value, card.Comment)]
          /\ hobs' = [op |-> "Set", err |-> ErrNil, dupnew |-> FALSE,
                      dupold |-> DupWith(hdr.cards, <<card>>)]
    /\ UNCHANGED rowsVars
    /\ UNCHANGED fileVars
    /\ UNCHANGED imgVars

NextSpecHeader == DoAppend \/ DoPrepend \/ DoSet

SpecHeader == InitHeader /\ [][NextSpecHeader]_vars

\* C10: after any sequence of Append, prepend and Set calls no two cards of
\* the header share a name other than COMMENT, HISTORY or the blank name, and
\* an Append whose cards would create such a duplicate, with an existing card
\* or with another card of the same call, fails.
C10_NoDuplicateNames ==
    /\ \A i, j \in 1..Len(hdr.cards) :
          (i < j /\ hdr.cards[i].Name = hdr.cards[j].Name) => hdr.cards[i].Name \in FreeForm
    /\ (hobs.op = "Append" /\ (hobs.dupnew \/ hobs.dupold)) => hobs.err # ErrNil

\* C12: after any sequence of Append, prepend and Set calls every integer
\* value of the header has the one normalised integer type, every float
\* value is float64 and every complex value is complex128.
C12_ValuesNormalised ==
    \A k \in 1..Len(hdr.cards) :
        hdr.cards[k].Value.t \notin
            ((SignedKinds \cup UnsignedKinds) \ {"int"}) \cup {"float32", "complex64"}

----------------------------------------------------------------------------
(* The size of an encoded header: makeHeaderLine, padBlock, alignBlock.    *)

\* The FITS block size, in bytes.
blockSize == 2880

\* An encoding that failed.
LineError == -1

CeilDiv(a, b) == (a + b - 1) \div b

\* padBlock returns the amount of padding to align to a FITS block size
padBlock(sz) == (blockSize - (sz % blockSize)) % blockSize

\* alignBlock returns a size adjusted to align at a FITS block size
alignBlock(sz) == sz + padBlock(sz)

\* The padding makeHeaderLine adds to reach the next 80-byte mark.
align80(n) == (80 - (n % 80)) % 80

\* The bytes of the COMMENT, HISTORY and blank lines: 72 characters of the
\* comment per line, no line for an empty comment.
freeFormLen(comment) == 80 * CeilDiv(Len(comment), 72)

\* The bytes of the keyword and of the value indicator: ten for a name of
\* up to eight characters, the HIERARCH convention for a longer one.
keywordLen(name) == IF Len(name) <= 8 THEN 10 ELSE Len("HIERARCH ") + Len(name) + 2

\* The length of fmt.Sprintf("'%-8s'", v)
quotedLen(n) == Max(n, 8) + 2

RECURSIVE continueLen(_)
\* The bytes of the CONTINUE lines for the `rem` characters of a string value
\* that did not fit on the first line, 67 characters per line.
continueLen(rem) ==
    IF rem <= 0 THEN 0
    ELSE IF rem >= 67 THEN 10 + Max(20, quotedLen(67 + 1)) + continueLen(rem - 67)
    ELSE 10 + Max(20, quotedLen(rem))

\* The value part of makeHeaderLine for a buffer that holds `buflen` bytes:
\* n is the number of bytes the last Fprintf wrote (0 after CONTINUE lines)
\* and buf the bytes in the buffer afterwards.
valueLen(value, buflen) ==
    IF value.t = "string"
    THEN LET vstr == IF value.v = "" THEN 2 ELSE quotedLen(Len(value.v))
             sz == 80 - buflen - 1 - 2
         IN  IF vstr < 80 - buflen
             THEN [n |-> Max(20, vstr), buf |-> buflen + Max(20, vstr), ok |-> TRUE]
             ELSE IF sz < 0 \/ sz > Len(value.v)
             THEN [n |-> 0, buf |-> buflen, ok |-> FALSE]
             ELSE LET long == buflen + Max(20, quotedLen(sz + 1))
                                 + continueLen(Len(value.v) - sz)
                  IN  [n |-> 0, buf |-> long + align80(long), ok |-> TRUE]
    ELSE IF value.t \in {"bool", "float64"}
    THEN [n |-> 20, buf |-> buflen + 20, ok |-> TRUE]
    ELSE IF value.t = "int"
    THEN [n |-> Max(20, Len(ToString(value.v))),
          buf |-> buflen + Max(20, Len(ToString(value.v))), ok |-> TRUE]
    ELSE IF value.t = "complex128"
    THEN [n |-> 23, buf |-> buflen + 23, ok |-> TRUE]
    ELSE IF value.t = "bigint"
    THEN [n |-> Len(ToString(value.v)), buf |-> buflen + Len(ToString(value.v)), ok |-> TRUE]
    ELSE [n |-> 0, buf |-> buflen, ok |-> FALSE]

\* The end of makeHeaderLine for a card with a value: the check of the
\* length of the value, the comment (on the line when it fits, on COMMENT
\* lines else) and the padding.
commentedLen(card, klen, val) ==
    LET buflen == IF val.n = 0 THEN 0 ELSE klen
        rest == val.buf % 80
        max == 3 + Len(card.Comment)
        n == IF max > 80 - rest \/ (val.buf > 80 /\ val.buf % 80 = 0)
             THEN val.buf + (IF rest > 0 THEN 80 - rest ELSE 0)
                     + freeFormLen(card.Comment)
             ELSE val.buf + max
    IN  IF ~val.ok \/ val.n + buflen > 80 THEN LineError
        ELSE n + align80(n)

\* The number of bytes makeHeaderLine returns for the card, LineError when
\* it fails.
headerLineLen(card) ==
    IF card.Name \in FreeForm THEN freeFormLen(card.Comment)
    ELSE IF card.Name = "END" THEN 80
    ELSE LET klen == keywordLen(card.Name)
         IN  IF card.Value.t = "nil"
             THEN LET n == IF klen = 10 /\ card.Comment # ""
                           THEN klen + Min(3 + Len(card.Comment), 80 - klen)
                           ELSE klen
                  IN  n + align80(n)
             ELSE commentedLen(card, klen, valueLen(card.Value, klen))

\* The bytes of a line and of the lines after it, LineError when one fails.
addLines(n, rest) == IF n = LineError \/ rest = LineError THEN LineError ELSE n + rest

RECURSIVE headerLen(_)
\* The bytes of the lines of the cards, LineError when one of them fails.
headerLen(cards) ==
    IF cards = <<>> THEN 0
    ELSE addLines(headerLineLen(Head(cards)), headerLen(Tail(cards)))

----------------------------------------------------------------------------
(* HDU values: NewHeader, NewDefaultHeader, NewImage, NewPrimaryHDU,       *)
(* NewTable, Image.Write, Table.Write, CopyTableRange and the freezes.     *)

IMAGE_HDU == "IMAGE_HDU"

ASCII_TBL == "ASCII_TBL"

BINARY_TBL == "BINARY_TBL"

ErrNoPrimary == "fitsio: file has no primary header. create one first"

ErrHasPrimary == "fitsio: file has already a Primary HDU"

ErrHeaderLine == "fitsio: value-string too big"

ErrNotAligned == "fitsio: header not aligned"

ErrWriteArgs == "fitsio: invalid number of arguments"

ErrPanic == "panic"

\* newHeader creates a new Header; no test on the content of the cards.
newHeader(cards, htype, bitpix, axes) ==
    [cards |-> HeaderAppend(<<>>, cards).cards, htype |-> htype,
     bitpix |-> bitpix, axes |-> axes]

\* The mandatory cards NewHeader, NewPrimaryHDU add when the header lacks
\* them: BITPIX, NAXIS, NAXIS1 and NAXIS2, no card for a further axis.
defaultCards(h) ==
    (IF HeaderHas(h.cards, "BITPIX") THEN <<>>
     ELSE <<Card("BITPIX", IntV(h.bitpix), "number of bits per data pixel")>>)
    \o (IF HeaderHas(h.cards, "NAXIS") THEN <<>>
        ELSE <<Card("NAXIS", IntV(Len(h.axes)), "number of data axes")>>)
    \o (IF Len(h.axes) >= 1 /\ ~HeaderHas(h.cards, "NAXIS1")
        THEN <<Card("NAXIS1", IntV(h.axes[1]), "length of data axis 1")>> ELSE <<>>)
    \o (IF Len(h.axes) >= 2 /\ ~HeaderHas(h.cards, "NAXIS2")
        THEN <<Card("NAXIS2", IntV(h.axes[2]), "length of data axis 2")>> ELSE <<>>)

\* The end of NewHeader: hdr.prepend(dcards...), its error dropped.
prependDefaults(h) == [h EXCEPT !.cards = HeaderPrepend(h.cards, defaultCards(h)).cards]

\* NewHeader creates a new Header from a set of Cards, HDU Type, bitpix and axes.
NewHeader(cards, htype, bitpix, axes) ==
    prependDefaults(newHeader(cards, htype, bitpix, axes))

\* NewDefaultHeader: the CFITSIO default cards, IMAGE_HDU, bitpix 8, no axes.
NewDefaultHeader ==
    NewHeader(<< Card("SIMPLE", BoolV(TRUE), "file does conform to FITS standard"),
                 Card("BITPIX", IntV(8), "number of bits per data pixel"),
                 Card("NAXIS", IntV(0), "number of data axes"),
                 Card("NAXIS1", IntV(0), "length of data axis 1"),
                 Card("NAXIS2", IntV(0), "length of data axis 2") >>,
              IMAGE_HDU, 8, <<>>)

\* NewImage creates a new Image with bitpix size for the pixels and axes as its axes
NewImage(bitpix, axes) ==
    [gotype |-> "imageHDU", hdr |-> NewHeader(<<>>, IMAGE_HDU, bitpix, axes), raw |-> 0]

\* NewPrimaryHDU creates a new PrimaryHDU with Header h.
NewPrimaryHDU(h) ==
    [gotype |-> "primaryHDU",
     hdr |-> [h EXCEPT !.cards =
                 (IF HeaderHas(h.cards, "SIMPLE") THEN <<>>
                  ELSE <<Card("SIMPLE", BoolV(TRUE), "primary HDU")>>)
                 \o defaultCards(h) \o h.cards],
     raw |-> 0]

RECURSIVE Product(_)
Product(axes) == IF axes = <<>> THEN 1 ELSE Head(axes) * Product(Tail(axes))

\* The size of a pixel in bytes.
pixelSize(bitpix) == IF bitpix < 0 THEN (-bitpix) \div 8 ELSE bitpix \div 8

\* len(img.raw) after Image.Write: nothing is done for an image without
\* axes, else the buffer is allocated for all the pixels.
ImageWriteLen(img) ==
    IF Len(img.hdr.axes) = 0 THEN img.raw
    ELSE pixelSize(img.hdr.bitpix) * Product(img.hdr.axes)

\* typeFromForm for the column formats the model uses: the bytes of one
\* element in the row (dsize), the repeat count (len), the bytes of one
\* element in the heap (hsize) and whether the column is a variable-length
\* array.
typeFromForm(form) ==
    CASE form = "1K"   -> [dsize |-> 8, len |-> 1, hsize |-> 0, vla |-> FALSE]
      [] form = "360J" -> [dsize |-> 4, len |-> 360, hsize |-> 0, vla |-> FALSE]
      [] form = "1PJ"  -> [dsize |-> 8, len |-> 1, hsize |-> 4, vla |-> TRUE]
      [] form = "1PB"  -> [dsize |-> 8, len |-> 1, hsize |-> 1, vla |-> TRUE]
      [] form = "I6"   -> [dsize |-> 6, len |-> 1, hsize |-> 0, vla |-> FALSE]
      [] form = "A10"  -> [dsize |-> 10, len |-> 1, hsize |-> 0, vla |-> FALSE]
      [] form = "3A"   -> [dsize |-> 3, len |-> 1, hsize |-> 0, vla |-> FALSE]
      [] form = "2A"   -> [dsize |-> 2, len |-> 1, hsize |-> 0, vla |-> FALSE]
      [] form = "1A"   -> [dsize |-> 1, len |-> 1, hsize |-> 0, vla |-> FALSE]

\* A column of a table and its place in the row.
Column(name, form) == [Name |-> name, Format |-> form, dtype |-> typeFromForm(form)]

RECURSIVE rowOffset(_, _)
\* The offset of the end of column i: NewTable's running `offset`.
rowOffset(cols, i) ==
    IF i = 0 THEN 0 ELSE rowOffset(cols, i - 1) + cols[i].dtype.dsize * cols[i].dtype.len

RECURSIVE columnCards(_, _)
\* The cards NewTable creates for the columns 1..i.
columnCards(cols, i) ==
    IF i = 0 THEN <<>>
    ELSE columnCards(cols, i - 1) \o
         << Card("TTYPE" \o ToString(i), StrV(cols[i].Name), "label for column " \o ToString(i)),
            Card("TFORM" \o ToString(i), StrV(cols[i].Format), "data format for column " \o ToString(i)),
            Card("TSCAL" \o ToString(i), [t |-> "float64", v |-> 0], "scaling offset for column " \o ToString(i)),
            Card("TZERO" \o ToString(i), [t |-> "float64", v |-> 0], "zero value for column " \o ToString(i)),
            Card("TBCOL" \o ToString(i),
                 IntV(rowOffset(cols, i) - cols[i].dtype.dsize * cols[i].dtype.len + 1), "") >>

\* NewTable creates a new table
NewTable(name, cols, hdutype) ==
    [gotype |-> "Table",
     hdr |-> newHeader(<<Card("TFIELDS", IntV(Len(cols)), "number of fields in each row")>>
                          \o columnCards(cols, Len(cols))
                          \o <<Card("EXTNAME", StrV(name), "name of this table extension")>>,
                       hdutype, 8, <<rowOffset(cols, Len(cols)), 0>>),
     binary |-> (hdutype = BINARY_TBL), data |-> 0, heap |-> 0,
     rowsz |-> rowOffset(cols, Len(cols)), nrows |-> 0, cols |-> cols, vlen |-> <<>>]

\* The table has a variable-length array column.
hasVLA(t) == \E i \in 1..Len(t.cols) : t.cols[i].dtype.vla

\* The bytes one element of the table's variable-length array takes in the heap.
heapElemSize(t) ==
    IF hasVLA(t) THEN t.cols[CHOOSE i \in 1..Len(t.cols) : t.cols[i].dtype.vla].dtype.hsize
    ELSE 0

\* Table.Write(args...): the row is added to the data before the arguments
\* are looked at; a row that is written puts the n elements of its
\* variable-length array in the heap and counts in nrows and axes[1].
TableWrite(t, argsok, n) ==
    LET grown == [t EXCEPT !.data = @ + t.rowsz]
    IN  IF ~argsok THEN [hdu |-> grown, err |-> ErrWriteArgs]
        ELSE [hdu |-> [grown EXCEPT !.heap = @ + heapElemSize(t) * n,
                                    !.vlen = Append(@, IF hasVLA(t) THEN n ELSE 0),
                                    !.nrows = @ + 1,
                                    !.hdr.axes[2] = @ + 1],
              err |-> ErrNil]

RECURSIVE copyRows(_, _, _, _)
\* The loop of CopyTableRange for a source with a variable-length array:
\* each row is scanned from src and written to dst.
copyRows(dst, src, beg, end) ==
    IF beg >= end THEN [hdu |-> dst, err |-> ErrNil]
    ELSE LET w == TableWrite(dst, Len(dst.cols) = Len(src.cols), src.vlen[beg + 1])
         IN  IF w.err # ErrNil THEN w ELSE copyRows(w.hdu, src, beg + 1, end)

\* The loop of CopyTableRange over the rows beg..end-1 of src, where the
\* model follows the bytes of the tables: dst.data = append(dst.data, row...)
appendRows(dst, src, beg, end) ==
    IF "bytes" \in DOMAIN dst /\ "bytes" \in DOMAIN src
    THEN [dst EXCEPT !.bytes = @ \o SubSeq(src.bytes, src.rowsz * beg + 1, src.rowsz * end)]
    ELSE dst

\* CopyTableRange(dst, src, beg, end); without a variable-length array the
\* rows are appended as bytes, after a re-slice of dst.data that panics when
\* its capacity is below the new length (roomy tells whether it is enough).
CopyTableRange(dst, src, beg, end, roomy) ==
    IF hasVLA(src) THEN copyRows(dst, src, beg, Min(end, src.nrows))
    ELSE IF end > beg /\ ~roomy THEN [hdu |-> dst, err |-> ErrPanic]
    ELSE [hdu |-> [appendRows(dst, src, beg, end) EXCEPT
                              !.data = @ + (end - beg) * src.rowsz,
                              !.nrows = @ + (end - beg),
                              !.hdr.axes[2] = @ + (end - beg)],
          err |-> ErrNil]

\* The HDU with the cards a call on its header left, and the error of the call.
withCards(hdu, r) == [hdu |-> [hdu EXCEPT !.hdr.cards = r.cards], err |-> r.err]

\* imageHDU.freeze: an XTENSION card is put in front unless there is one.
freezeImage(img) ==
    IF HeaderHas(img.hdr.cards, "XTENSION") THEN [hdu |-> img, err |-> ErrNil]
    ELSE withCards(img, HeaderPrepend(img.hdr.cards,
                            <<Card("XTENSION", StrV("IMAGE   "), "IMAGE extension")>>))

\* The cards Table.freeze puts in front of a header without XTENSION.
tableCards(t) ==
    << Card("XTENSION", StrV(IF t.binary THEN "BINTABLE" ELSE "TABLE   "), "table extension"),
       Card("BITPIX", IntV(t.hdr.bitpix), "number of bits per data pixel"),
       Card("NAXIS", IntV(Len(t.hdr.axes)), "number of data axes"),
       Card("NAXIS1", IntV(t.hdr.axes[1]), "length of data axis 1"),
       Card("NAXIS2", IntV(t.hdr.axes[2]), "length of data axis 2"),
       Card("PCOUNT", IntV(t.heap), "heap area size (bytes)"),
       Card("GCOUNT", IntV(1), "one data group") >>

\* The first part of Table.freeze: the mandatory cards are put in front of
\* a header that has no XTENSION card.
prependTableCards(t) ==
    IF HeaderHas(t.hdr.cards, "XTENSION") THEN [cards |-> t.hdr.cards, err |-> ErrNil]
    ELSE HeaderPrepend(t.hdr.cards, tableCards(t))

\* The second part of Table.freeze: a THEAP card is added to a header that
\* has none, unless the first part failed.
appendTheap(pre) ==
    IF pre.err # ErrNil \/ HeaderHas(pre.cards, "THEAP") THEN pre
    ELSE HeaderAppend(pre.cards, <<Card("THEAP", IntV(0), "gap size (bytes)")>>)

\* The two parts of Table.freeze on the header of t.
freezeCards(t) == withCards(t, appendTheap(prependTableCards(t)))

\* Table.freeze: axes[1] takes the row count; the mandatory cards are
\* created when the header has no XTENSION card and THEAP when it has none.
freezeTable(table) ==
    freezeCards([table EXCEPT !.hdr.axes[2] = table.nrows])


----------------------------------------------------------------------------
(* The encoder and the File: EncodeHDU, saveImage, saveTable, Create,      *)
(* File.Write, File.append.                                                *)

\* Bounds of the file model.
MaxObjs == 2

MaxWrites == 3

MaxTableRows == 2

MaxUserCards == 1

\* The number of elements of the variable-length arrays the program writes.
VLALen == 24

\* An encoder that writes the pixels and no padding.
saveImageUnpadded(off, raw) == off + raw

\* The offset in the sink after saveImage wrote the pixels and the padding.
saveImage(off, raw) == off + raw + padBlock(raw)

\* The offset in the sink after saveTable wrote the data, the heap and the
\* padding.
saveTable(off, data, heap) == off + data + heap + padBlock(data + heap)

\* The keywords that give an HDU its type and its shape.
StructuralNames ==
    {"SIMPLE", "XTENSION", "BITPIX", "NAXIS", "NAXIS1", "NAXIS2", "NAXIS3", "NAXIS4",
     "PCOUNT", "GCOUNT", "THEAP", "TFIELDS", "TTYPE1", "TFORM1", "TTYPE2", "TFORM2"}

IsStructural(card) == card.Name \in StructuralNames

\* The emitted cards that give the HDU its type and its shape, in order.
structural(cards) == SelectSeq(cards, IsStructural)

\* EncodeHDU after the loop over the cards, for the `lines` bytes the loop
\* put in the buffer.
encodeLines(sink, hdu, lines) ==
    LET buflen == lines + 80 + padBlock(lines + 80)
        doff == sink.len + buflen
        end == IF hdu.hdr.htype = IMAGE_HDU THEN saveImage(doff, hdu.raw)
               ELSE saveTable(doff, hdu.data, hdu.heap)
        seg == [hoff |-> sink.len, doff |-> doff, cards |-> structural(hdu.hdr.cards),
                htype |-> hdu.hdr.htype,
                nrows |-> IF hdu.hdr.htype = IMAGE_HDU THEN 0 ELSE hdu.nrows,
                heap |-> IF hdu.hdr.htype = IMAGE_HDU THEN 0 ELSE hdu.heap,
                end |-> end,
                payload |-> IF hdu.hdr.htype = IMAGE_HDU THEN hdu.raw
                            ELSE hdu.data + hdu.heap,
                bytes |-> IF "bytes" \in DOMAIN hdu THEN hdu.bytes ELSE <<>>]
    IN  IF lines = LineError THEN [sink |-> sink, err |-> ErrHeaderLine]
        ELSE IF alignBlock(buflen) # buflen THEN [sink |-> sink, err |-> ErrNotAligned]
        ELSE [sink |-> [len |-> end, hdus |-> Append(sink.hdus, seg)], err |-> ErrNil]

\* EncodeHDU: the lines of the cards and the END line are collected in a
\* buffer, padded and checked for alignment before anything is written; the
\* payload follows.  An HDU of the sink is recorded with the offsets of its
\* header, of its payload and of its end, the structural cards that were
\* emitted, what the HDU held when it was encoded and, where the model
\* follows them, the bytes of the payload before the padding.
EncodeHDU(sink, hdu) == encodeLines(sink, hdu, headerLen(hdu.hdr.cards))

\* Create creates a new FITS file in write-only mode
Create == [open |-> TRUE, hdus |-> <<>>, sink |-> [len |-> 0, hdus |-> <<>>]]

\* File.append: only a value of the Go type *primaryHDU is refused when the
\* list is not empty.
fileAppend(hdus, hdu, id) ==
    IF hdu.gotype = "primaryHDU" /\ Len(hdus) # 0
    THEN [hdus |-> hdus, err |-> ErrHasPrimary]
    ELSE [hdus |-> Append(hdus, id), err |-> ErrNil]

\* The first part of File.Write: the first HDU of a file must be an image
\* and gets a SIMPLE card when it has none, a later HDU is frozen.
prepareHDU(f, hdu) ==
    IF Len(f.hdus) = 0
    THEN IF hdu.hdr.htype # IMAGE_HDU THEN [hdu |-> hdu, err |-> ErrNoPrimary]
         ELSE IF HeaderHas(hdu.hdr.cards, "SIMPLE") THEN [hdu |-> hdu, err |-> ErrNil]
         ELSE withCards(hdu, HeaderPrepend(hdu.hdr.cards,
                                 <<Card("SIMPLE", BoolV(TRUE), "primary HDU")>>))
    ELSE IF hdu.hdr.htype = IMAGE_HDU THEN freezeImage(hdu)
    ELSE freezeTable(hdu)

\* The end of File.Write: the HDU is appended to the list of the file.
appendEncoded(f, hdu, enc, id) ==
    IF enc.err # ErrNil THEN [file |-> f, hdu |-> hdu, err |-> enc.err]
    ELSE LET app == fileAppend(f.hdus, hdu, id)
         IN  [file |-> [f EXCEPT !.sink = enc.sink, !.hdus = app.hdus],
              hdu |-> hdu, err |-> app.err]

\* The second part of File.Write: the HDU is encoded unless the first part
\* failed.
writePrepared(f, prep, id) ==
    IF prep.err # ErrNil THEN [file |-> f, hdu |-> prep.hdu, err |-> prep.err]
    ELSE appendEncoded(f, prep.hdu, EncodeHDU(f.sink, prep.hdu), id)

\* File.Write(hdu), for the HDU the program holds under `id`: the file, the
\* HDU and the error after the call.
FileWrite(f, hdu, id) == writePrepared(f, prepareHDU(f, hdu), id)

RECURSIVE Repeat(_, _)
\* A string of n times the string str.
Repeat(str, n) ==
    IF n = 0 THEN ""
    ELSE IF n % 2 = 0 THEN LET half == Repeat(str, n \div 2) IN half \o half
    ELSE str \o Repeat(str, n - 1)

\* The HDU values the file model starts from.
HDUPool ==
    { NewImage(16, <<1440>>), NewImage(-32, <<3, 5>>), NewPrimaryHDU(NewDefaultHeader),
      NewTable("events", <<Column("id", "1K"), Column("hits", "1PJ")>>, BINARY_TBL),
      NewTable("catalog", <<Column("n", "I6"), Column("tag", "A10")>>, ASCII_TBL) }

\* The cards the program adds to the header of an HDU: a comment of 31
\* lines and a string value that needs CONTINUE lines.
UserCards ==
    { Card("COMMENT", NilV, Repeat("c", 72 * 31)),
      Card("LONGSTR", StrV(Repeat("s", 150)), "a long string") }

UserNames == {c.Name : c \in UserCards}

\* The number of cards of the program in the header.
userCount(cards) == Cardinality({k \in 1..Len(cards) : cards[k].Name \in UserNames})

IsImage(hdu) == hdu.hdr.htype = IMAGE_HDU

IsTable(hdu) == hdu.hdr.htype \in {ASCII_TBL, BINARY_TBL}

NoCall == [err |-> ErrNil, allok |-> TRUE]

Called(err) == [err |-> err, allok |-> fobs.allok]

InitFile ==
    /\ RowsIdle
    /\ HeaderIdle
    /\ ImageIdle
    /\ objs \in [1..MaxObjs -> HDUPool]
    /\ file = Create
    /\ fobs = NoCall

\* img.Write(data)
DoImageWrite ==
    /\ file.open
    /\ \E id \in 1..MaxObjs :
          /\ IsImage(objs[id])
          /\ objs' = [objs EXCEPT ![id].raw = ImageWriteLen(objs[id])]
          /\ fobs' = Called(ErrNil)
    /\ UNCHANGED <<file, rowsVars, hdrVars, imgVars>>

\* tbl.Write(args...)
DoTableWrite ==
    /\ file.open
    /\ \E id \in 1..MaxObjs, argsok \in BOOLEAN, n \in {0, VLALen} :
          /\ IsTable(objs[id])
          /\ objs[id].data < MaxTableRows * objs[id].rowsz
          /\ (n # 0) <=> (argsok /\ hasVLA(objs[id]))
          /\ \E w \in {TableWrite(objs[id], argsok, n)} :
                 /\ objs' = [objs EXCEPT ![id] = w.hdu]
                 /\ fobs' = Called(w.err)
    /\ UNCHANGED <<file, rowsVars, hdrVars, imgVars>>

\* CopyTableRange(dst, src, beg, end)
DoCopyTableRange ==
    /\ file.open
    /\ \E dst, src \in 1..MaxObjs, beg, end \in 0..MaxTableRows, roomy \in BOOLEAN :
          /\ dst # src /\ IsTable(objs[dst]) /\ IsTable(objs[src])
          /\ objs[dst].binary = objs[src].binary
          /\ beg < end /\ end <= objs[src].nrows
          /\ objs[dst].data + (end - beg) * objs[dst].rowsz <= MaxTableRows * objs[dst].rowsz
          /\ hasVLA(objs[src]) => roomy
          /\ (~hasVLA(objs[src]) /\ objs[dst].data = 0) => ~roomy
          /\ \E c \in {CopyTableRange(objs[dst], objs[src], beg, end, roomy)} :
                 /\ objs' = [objs EXCEPT ![dst] = c.hdu]
                 /\ fobs' = Called(c.err)
    /\ UNCHANGED <<file, rowsVars, hdrVars, imgVars>>

\* hdu.Header().Append(card)
DoAddCard ==
    /\ file.open
    /\ \E id \in 1..MaxObjs, card \in UserCards :
          /\ userCount(objs[id].hdr.cards) < MaxUserCards
          /\ \E a \in {HeaderAppend(objs[id].hdr.cards, <<card>>)} :
                 /\ objs' = [objs EXCEPT ![id].hdr.cards = a.cards]
                 /\ fobs' = Called(a.err)
    /\ UNCHANGED <<file, rowsVars, hdrVars, imgVars>>

\* f.Write(hdu)
DoFileWrite ==
    /\ file.open /\ ~rfile.open
    /\ Len(file.sink.hdus) < MaxWrites
    /\ \E id \in 1..MaxObjs :
          \E w \in {FileWrite(file, objs[id], id)} :
              /\ file' = w.file
              /\ objs' = [objs EXCEPT ![id] = w.hdu]
              /\ fobs' = [err |-> w.err, allok |-> fobs.allok /\ w.err = ErrNil]
    /\ UNCHANGED <<rowsVars, hdrVars, imgVars>>

NextSpecFile ==
    DoImageWrite \/ DoTableWrite \/ DoCopyTableRange \/ DoAddCard \/ DoFileWrite

SpecFile == InitFile /\ [][NextSpecFile]_vars

\* C4: after any sequence of File.Write calls on a file obtained from
\* Create, a non-empty HDU list starts with an image HDU whose header carries
\* SIMPLE and no later element of the list carries a SIMPLE card.
C4_OnePrimaryFirst ==
    (file.open /\ Len(file.hdus) > 0) =>
        /\ IsImage(objs[file.hdus[1]])
        /\ HeaderHas(objs[file.hdus[1]].hdr.cards, "SIMPLE")
        /\ \A k \in 2..Len(file.hdus) : ~HeaderHas(objs[file.hdus[k]].hdr.cards, "SIMPLE")

\* C22: after any sequence of File.Write calls on a file obtained from
\* Create, the calls that return an error included, the sink holds the
\* encodings of the HDUs of File.HDUs() in list order and nothing else: a
\* Write that returns an error has added no bytes to the sink and no HDU
\* to the list.
C22_SinkHoldsTheList ==
    file.open =>
        /\ Len(file.sink.hdus) = Len(file.hdus)
        /\ file.hdus = <<>> => file.sink.len = 0
        /\ \A k \in 1..Min(Len(file.hdus), Len(file.sink.hdus)) :
              file.sink.hdus[k].htype = objs[file.hdus[k]].hdr.htype

\* C23: after any sequence of Table.Write calls, successful or failed, the
\* length of the data area of a table is NumRows() times the row size: a
\* Write that returns an error leaves the data area as it was.
C23_DataIsRows ==
    \A id \in DOMAIN objs :
        IsTable(objs[id]) => objs[id].data = objs[id].nrows * objs[id].rowsz

\* The bytes of the pixels the cards of a header announce: the product of
\* the NAXISn values times |BITPIX|/8, nothing without axes.
announced(cards) ==
    IF HeaderValue(cards, "NAXIS").v = 0 THEN 0
    ELSE Product([i \in 1..HeaderValue(cards, "NAXIS").v |->
                     HeaderValue(cards, "NAXIS" \o ToString(i)).v])
         * pixelSize(HeaderValue(cards, "BITPIX").v)

\* C25: for every image HDU that File.Write encodes, the payload written
\* before the padding is product(axes) x |BITPIX|/8 bytes, 0 for an image
\* without axes, as the BITPIX and NAXISn cards of the emitted header say,
\* whatever calls of Image.Write came before, none included.
C25_PayloadMatchesAxes ==
    file.open =>
        \A k \in 1..Len(file.sink.hdus) :
            file.sink.hdus[k].htype = IMAGE_HDU =>
                file.sink.hdus[k].payload = announced(file.sink.hdus[k].cards)

\* C5: after any sequence of successful File.Write calls of image, ASCII
\* table and binary table HDUs the number of bytes in the sink is a multiple
\* of 2880, and the header and the payload of every HDU start at a multiple
\* of 2880.
C5_BlockAligned ==
    (file.open /\ fobs.allok) =>
        /\ file.sink.len % blockSize = 0
        /\ \A k \in 1..Len(file.sink.hdus) :
              /\ file.sink.hdus[k].hoff % blockSize = 0
              /\ file.sink.hdus[k].doff % blockSize = 0
              /\ file.sink.hdus[k].hoff < file.sink.hdus[k].doff
              /\ file.sink.hdus[k].doff <=
                    (IF k < Len(file.sink.hdus) THEN file.sink.hdus[k + 1].hoff
                     ELSE file.sink.len)

\* Three HDUs were written without an error: one whose header takes more
\* than one block, a table with rows and a heap whose payload is not a
\* multiple of the block size, and an image whose payload is exactly one block.
C5_Witness ==
    /\ file.open /\ fobs.allok /\ Len(file.sink.hdus) = 3
    /\ \E k \in 1..3 : file.sink.hdus[k].doff - file.sink.hdus[k].hoff > blockSize
    /\ file.sink.hdus[1].htype = IMAGE_HDU
    /\ file.sink.hdus[2].hoff - file.sink.hdus[1].doff = blockSize
    /\ \E k \in 2..3 : file.sink.hdus[k].heap > 0 /\ file.sink.hdus[k].nrows = 2

\* C6: for every table HDU encoded by File.Write, the NAXIS2 card of the
\* emitted header equals the row count of the table and the PCOUNT card the
\* length of its heap at the time of the encoding.
C6_TableCardsCurrent ==
    file.open =>
        \A k \in 1..Len(file.sink.hdus) :
            file.sink.hdus[k].htype \in {ASCII_TBL, BINARY_TBL} =>
                /\ HeaderHas(file.sink.hdus[k].cards, "NAXIS2")
                /\ HeaderValue(file.sink.hdus[k].cards, "NAXIS2").v = file.sink.hdus[k].nrows
                /\ HeaderHas(file.sink.hdus[k].cards, "PCOUNT")
                /\ HeaderValue(file.sink.hdus[k].cards, "PCOUNT").v = file.sink.hdus[k].heap

----------------------------------------------------------------------------
(* Pixels: the big-endian codecs of wbuf and rbuf, Image.Write, the        *)
(* decoder (DecodeHDU, hduTypeFrom, loadImage, Open) and Image.Read.       *)

\* Bounds of the image model.
MaxAxes == 3

MaxPixels == 2

ErrMissingAxis == "fitsio: missing 'NAXISn' key"

ErrMissingBitpix == "fitsio: missing 'BITPIX' card"

ErrNoType == "fitsio: invalid header (missing 'SIMPLE' or 'XTENSION' card)"

ErrBadXtension == "fitsio: invalid 'XTENSION' value"

ErrShortRead == "fitsio: error reading bytes"

ErrBitpix == "fitsio: got a slice but bitpix does not match"

ErrElemSize == "fitsio: element-size do not match"

RECURSIVE putBE(_, _)
\* binary.BigEndian.PutUintN of the two's complement of v on n bytes.
putBE(v, n) == IF n = 0 THEN <<>> ELSE Append(putBE(v \div 256, n - 1), v % 256)

RECURSIVE uintBE(_)
\* binary.BigEndian.UintN
uintBE(b) ==
    IF b = <<>> THEN 0 ELSE uintBE(SubSeq(b, 1, Len(b) - 1)) * 256 + b[Len(b)]

\* intN(binary.BigEndian.UintN(b)): the bytes as a signed integer.
intBE(b) ==
    IF b[1] >= 128 THEN -uintBE([k \in 1..Len(b) |-> 255 - b[k]]) - 1 ELSE uintBE(b)

\* The element types of the slices Image.Write and Image.Read take, with
\* the BITPIX each goes with.  A floating-point element is modelled by its
\* IEEE 754 bit pattern (math.Float32bits, math.Float64bits).
ElemBitpix ==
    [byte |-> 8, int8 |-> 8, int16 |-> 16, int32 |-> 32, int64 |-> 64,
     float32 |-> -32, float64 |-> -64]

ElemTypes == DOMAIN ElemBitpix

IsSignedElem(etype) == etype \in {"int8", "int16", "int32", "int64"}

\* wbuf.writeI8 .. writeF64: the bytes of one element.
writeElem(etype, v) == putBE(v, pixelSize(ElemBitpix[etype]))

\* rbuf.readI8 .. readF64: the element of the bytes.
readElem(etype, b) == IF IsSignedElem(etype) THEN intBE(b) ELSE uintBE(b)

RECURSIVE writeElems(_, _)
writeElems(etype, data) ==
    IF data = <<>> THEN <<>>
    ELSE writeElem(etype, Head(data)) \o writeElems(etype, Tail(data))

\* n zero bytes
Zeros(n) == [k \in 1..n |-> 0]

\* Image.Write(data) for a slice of the element type: nothing is done for an
\* image without axes; the buffer is allocated before the type is checked.
ImageWrite(img, etype, data) ==
    LET size == pixelSize(img.hdr.bitpix) * Product(img.hdr.axes)
        put == writeElems(etype, data)
    IN  IF Len(img.hdr.axes) = 0 THEN [hdu |-> img, err |-> ErrNil]
        ELSE IF ElemBitpix[etype] # img.hdr.bitpix
        THEN [hdu |-> [img EXCEPT !.raw = size, !.bytes = Zeros(size)], err |-> ErrBitpix]
        ELSE [hdu |-> [img EXCEPT !.raw = size,
                                  !.bytes = put \o Zeros(size - Len(put))],
              err |-> ErrNil]

\* processString: the decoder drops the trailing blanks of a string value.
processString(str) ==
    IF str = "IMAGE   " THEN "IMAGE" ELSE IF str = "TABLE   " THEN "TABLE" ELSE str

\* The cards the decoder reads from the lines of an HDU, the END card last.
decodedCards(seg) ==
    [k \in 1..Len(seg.cards) |->
        IF seg.cards[k].Value.t = "string"
        THEN [seg.cards[k] EXCEPT !.Value.v = processString(@)]
        ELSE seg.cards[k]]
    \o <<Card("END", NilV, "")>>

\* hduTypeFrom: the first SIMPLE or XTENSION card gives the type.
hduTypeFrom(cards) ==
    LET ks == {k \in 1..Len(cards) : cards[k].Name \in {"SIMPLE", "XTENSION"}}
        k == CHOOSE i \in ks : \A j \in ks : i <= j
    IN  IF ks = {} THEN [htype |-> "", primary |-> FALSE, err |-> ErrNoType]
        ELSE IF cards[k].Name = "SIMPLE"
        THEN [htype |-> IMAGE_HDU, primary |-> TRUE, err |-> ErrNil]
        ELSE IF cards[k].Value.v = "IMAGE"
        THEN [htype |-> IMAGE_HDU, primary |-> FALSE, err |-> ErrNil]
        ELSE IF cards[k].Value.v = "TABLE"
        THEN [htype |-> ASCII_TBL, primary |-> FALSE, err |-> ErrNil]
        ELSE IF cards[k].Value.v = "BINTABLE"
        THEN [htype |-> BINARY_TBL, primary |-> FALSE, err |-> ErrNil]
        ELSE [htype |-> "", primary |-> FALSE, err |-> ErrBadXtension]

\* get_card of DecodeHDU: add_card records, for the name of a card that is
\* not free-form, the index the card gets in the slice, a later card of the
\* same name replacing the index of an earlier one; every card stays in the
\* slice.  The value of the card the map gives for the name k.
get_card(cards, k) ==
    LET ks == {i \in 1..Len(cards) : cards[i].Name = k}
    IN  cards[CHOOSE i \in ks : \A j \in ks : j <= i].Value

\* The name of the card of axis i.
axisName(i) == "NAXIS" \o ToString(i)

\* The axes DecodeHDU takes from the cards: one NAXISn card for each of the
\* NAXIS axes, an error when one is missing.
decodeAxes(cards) ==
    IF ~HeaderHas(cards, "NAXIS") THEN [axes |-> <<>>, err |-> ErrNil]
    ELSE LET n == get_card(cards, "NAXIS").v
         IN  IF \E i \in 1..n : ~HeaderHas(cards, axisName(i))
             THEN [axes |-> <<>>, err |-> ErrMissingAxis]
             ELSE [axes |-> [i \in 1..n |-> get_card(cards, axisName(i)).v],
                   err |-> ErrNil]

\* loadImage: the bytes of the pixels are read from the stream, then the
\* padding is skipped; avail is the number of bytes up to the next HDU.
loadImage(h, seg) ==
    LET nelmts == IF Len(h.axes) <= 0 THEN 0 ELSE Product(h.axes)
        n == nelmts * pixelSize(h.bitpix)
        avail == seg.end - seg.doff
    IN  IF n + padBlock(n) # avail THEN [raw |-> <<>>, err |-> ErrShortRead]
        ELSE [raw |-> SubSeq(seg.bytes \o Zeros(n - Len(seg.bytes)), 1, n), err |-> ErrNil]

\* No HDU: what DecodeHDU returns with an error.
NoHDU == [gotype |-> "none"]

\* The columns loadTable takes from the TTYPEn and TFORMn cards; col.Start is
\* the value of the TBCOLn card when the header has one.
decodeCols(cards) ==
    [i \in 1..HeaderValue(cards, "TFIELDS").v |->
        Column(HeaderValue(cards, "TTYPE" \o ToString(i)).v,
               HeaderValue(cards, "TFORM" \o ToString(i)).v)
        @@ [Start |-> IF HeaderHas(cards, "TBCOL" \o ToString(i))
                      THEN HeaderValue(cards, "TBCOL" \o ToString(i)).v ELSE 0]]

\* loadTable: a block of the aligned size of the data and of the heap is
\* read; the data are its first NAXIS1 * NAXIS2 bytes, the heap is what
\* follows the gap, up to the end of the block.
loadTable(h, htype, seg) ==
    LET rowsz == h.axes[1]
        nrows == h.axes[2]
        datasz == nrows * rowsz
        heapsz == IF HeaderHas(h.cards, "PCOUNT") THEN HeaderValue(h.cards, "PCOUNT").v ELSE 0
        blocksz == alignBlock(datasz + heapsz)
        gapsz == IF HeaderHas(h.cards, "THEAP") THEN HeaderValue(h.cards, "THEAP").v ELSE 0
    IN  IF blocksz # seg.end - seg.doff THEN [hdu |-> NoHDU, err |-> ErrShortRead]
        ELSE [hdu |-> [gotype |-> "Table", hdr |-> h, binary |-> (htype = BINARY_TBL),
                       data |-> datasz, heap |-> blocksz - datasz - gapsz,
                       rowsz |-> rowsz, nrows |-> nrows, cols |-> decodeCols(h.cards),
                       vlen |-> <<>>,
                       bytes |-> SubSeq(seg.bytes \o Zeros(datasz - Len(seg.bytes)), 1, datasz)],
              err |-> ErrNil]

\* The end of DecodeHDU for an image: the HDU with the pixels loadImage read.
imageFrom(ty, h, data) ==
    IF data.err # ErrNil THEN [hdu |-> NoHDU, err |-> data.err]
    ELSE [hdu |-> [gotype |-> IF ty.primary THEN "primaryHDU" ELSE "imageHDU",
                   hdr |-> h, raw |-> Len(data.raw), bytes |-> data.raw],
          err |-> ErrNil]

\* The switch of DecodeHDU on the type of the HDU, for its header h.
decodeData(seg, ty, h) ==
    IF ty.htype # IMAGE_HDU THEN loadTable(h, ty.htype, seg)
    ELSE imageFrom(ty, h, loadImage(h, seg))

\* DecodeHDU once the axes and the type were taken from the cards.
decodeTyped(seg, cards, ax, ty) ==
    IF ax.err # ErrNil THEN [hdu |-> NoHDU, err |-> ax.err]
    ELSE IF ty.err # ErrNil THEN [hdu |-> NoHDU, err |-> ty.err]
    ELSE IF ~HeaderHas(cards, "BITPIX") THEN [hdu |-> NoHDU, err |-> ErrMissingBitpix]
    ELSE decodeData(seg, ty, NewHeader(cards, ty.htype, get_card(cards, "BITPIX").v,
                                       ax.axes))

\* DecodeHDU once the cards were read.
decodeHeader(seg, cards) == decodeTyped(seg, cards, decodeAxes(cards), hduTypeFrom(cards))

\* DecodeHDU for the next HDU of the stream.
DecodeHDU(seg) == decodeHeader(seg, decodedCards(seg))

RECURSIVE decodeAll(_, _)
\* One turn of the loop of Open, for the HDU d the decoder returned.
decodeNext(segs, hdus, d) ==
    IF d.err # ErrNil THEN [open |-> TRUE, hdus |-> <<>>, err |-> d.err]
    ELSE decodeAll(Tail(segs), Append(hdus, d.hdu))

\* The loop of Open: HDUs are decoded up to the end of the stream, the first
\* error ends it.
decodeAll(segs, hdus) ==
    IF segs = <<>> THEN [open |-> TRUE, hdus |-> hdus, err |-> ErrNil]
    ELSE decodeNext(segs, hdus, DecodeHDU(Head(segs)))

\* Open opens a FITS file in read-only mode.
Open(sink) == decodeAll(sink.hdus, <<>>)

\* Image.Read(ptr) into a slice of the element type.
ImageRead(img, etype) ==
    LET nelmts == IF Len(img.hdr.axes) <= 0 THEN 0 ELSE Product(img.hdr.axes)
        pixsz == pixelSize(img.hdr.bitpix)
    IN  IF pixelSize(ElemBitpix[etype]) # pixsz THEN [out |-> <<>>, err |-> ErrElemSize]
        ELSE [out |-> [k \in 1..nelmts |->
                          readElem(etype, SubSeq(img.bytes, (k - 1) * pixsz + 1, k * pixsz))],
              err |-> ErrNil]

\* The axes lists of the image model: up to MaxAxes axes of one or two
\* pixels, MaxPixels pixels at most.
AxesLists ==
    {a \in UNION {[1..n -> 1..2] : n \in 1..MaxAxes} : Product(a) <= MaxPixels}

\* The pixel values of the image model: the least and a large value of the
\* integer types, two bit patterns of the floating-point types.
ElemValues ==
    [byte |-> {0, 200}, int8 |-> {-128, 127}, int16 |-> {-32768, 258},
     int32 |-> {-65536, 16909060}, int64 |-> {-1, 16909060},
     float32 |-> {0, 1065353216}, float64 |-> {1, 1072693248}]

\* An HDU value whose pixels the model follows byte by byte.
WithBytes(hdu) == hdu @@ [bytes |-> <<>>]

InitImage ==
    /\ RowsIdle
    /\ HeaderIdle
    /\ \E etype \in ElemTypes, axes \in AxesLists :
          \E data \in [1..Product(axes) -> ElemValues[etype]] :
             /\ objs = [i \in 1..MaxObjs |->
                          IF i = 1 THEN WithBytes(NewImage(ElemBitpix[etype], axes))
                          ELSE WithBytes(NewPrimaryHDU(NewDefaultHeader))]
             /\ iobs = [stage |-> "new", etype |-> etype, axes |-> axes, data |-> data,
                        werr |-> ErrNil, k |-> 0, out |-> <<>>, rerr |-> ErrNil]
    /\ file = Create
    /\ fobs = NoCall
    /\ rfile = [open |-> FALSE]
    /\ tobs = [written |-> <<>>]

\* img.Write(&data), for the image the program created
DoImageFill ==
    /\ iobs.stage = "new" /\ ~rfile.open
    /\ \E w \in {ImageWrite(objs[1], iobs.etype, iobs.data)} :
           /\ objs' = [objs EXCEPT ![1] = w.hdu]
           /\ iobs' = [iobs EXCEPT !.stage = "filled", !.werr = w.err]
    /\ UNCHANGED <<file, fobs, rfile, tobs, rowsVars, hdrVars>>

\* Open(r), for the bytes the file has written so far
DoOpen ==
    /\ file.open /\ ~rfile.open
    /\ rfile' = Open(file.sink)
    /\ UNCHANGED <<fileVars, iobs, tobs, rowsVars, hdrVars>>

\* f.HDU(k).(Image).Read(&out), into a slice of the type that was written
DoImageRead ==
    /\ rfile.open /\ rfile.err = ErrNil
    /\ \E k \in 1..Len(rfile.hdus) :
          /\ rfile.hdus[k].hdr.bitpix = ElemBitpix[iobs.etype]
          /\ \E r \in {ImageRead(rfile.hdus[k], iobs.etype)} :
                 iobs' = [iobs EXCEPT !.stage = "read", !.k = k, !.out = r.out, !.rerr = r.err]
    /\ UNCHANGED <<fileVars, rfile, tobs, rowsVars, hdrVars>>

NextSpecImage == DoImageFill \/ DoFileWrite \/ DoOpen \/ DoImageRead

SpecImage == InitImage /\ [][NextSpecImage]_vars

\* The HDU k of the sink is the image of the program, written with its pixels.
IsFilled(k) == file.sink.hdus[k].bytes # <<>>

\* No HDU of the sink is the image of the program written without pixels.
AllFilled ==
    \A k \in 1..Len(file.sink.hdus) :
        HeaderValue(file.sink.hdus[k].cards, "NAXIS").v = 0 \/ IsFilled(k)

\* C1: an image created with NewImage for any BITPIX and any axes list,
\* filled by Image.Write from a sequence of product(axes) elements of the
\* matching type and written with File.Write is read back through Open with
\* the same axes list and, through Image.Read, with the same elements.
C1_ImageRoundTrip ==
    (rfile.open /\ iobs.werr = ErrNil /\ AllFilled) =>
        /\ rfile.err = ErrNil
        /\ \A k \in 1..Len(file.sink.hdus) :
              IsFilled(k) => rfile.hdus[k].hdr.axes = iobs.axes
        /\ (iobs.stage = "read" /\ IsFilled(iobs.k)) =>
              (iobs.rerr = ErrNil /\ iobs.out = iobs.data)

----------------------------------------------------------------------------
(* Rows of a binary table, byte by byte: Column.writeBin, Column.readBin,  *)
(* Table.write, Table.writeMap, Table.writeStruct and the scans.           *)

\* Bound of the table model.
MaxWritten == 2

\* The column holds strings; a string is modelled by the sequence of its bytes.
IsStringCol(col) == col.Format \in {"1A", "2A", "3A", "A10"}

\* The sequence without its trailing NUL bytes: strings.TrimRight(str, "\x00")
TrimNul(b) ==
    LET keep == {k \in 1..Len(b) : b[k] # 0}
    IN  IF keep = {} THEN <<>> ELSE SubSeq(b, 1, CHOOSE k \in keep : \A j \in keep : j <= k)

\* Column.writeBin: the bytes of the value in the row.  A string is written
\* after a NUL byte and cut to the width of the column.
writeBin(col, value) ==
    IF IsStringCol(col)
    THEN SubSeq(<<0>> \o value \o Zeros(col.dtype.dsize), 1, col.dtype.dsize)
    ELSE putBE(value, col.dtype.dsize)

\* Column.readBin: the value of the bytes of the row.
readBin(col, cell) ==
    IF IsStringCol(col)
    THEN IF cell[1] = 0 THEN TrimNul(SubSeq(cell, 2, Len(cell))) ELSE cell
    ELSE intBE(cell)

\* reflect.New(col.Type()).Elem(): the zero value of the type of the column.
zeroValue(col) == IF IsStringCol(col) THEN <<>> ELSE 0

\* The bytes of the table with `cell` written from offset beg.
putCell(bytes, beg, cell) ==
    [k \in 1..Len(bytes) |->
        IF k > beg /\ k <= beg + Len(cell) THEN cell[k - beg] ELSE bytes[k]]

RECURSIVE writeCols(_, _, _, _)
\* The loop over the columns 1..i that writes the values at row irow.
writeCols(t, bytes, vals, i) ==
    IF i = 0 THEN bytes
    ELSE putCell(writeCols(t, bytes, vals, i - 1),
                 t.rowsz * t.nrows + rowOffset(t.cols, i - 1),
                 writeBin(t.cols[i], vals[i]))

\* The values the columns are given: Table.write and Table.writeStruct pass
\* the values of the caller, Table.writeMap passes a new zero value of the
\* type of each column.
passedValues(t, shape, vals) ==
    IF shape = "map" THEN [i \in 1..Len(t.cols) |-> zeroValue(t.cols[i])] ELSE vals

\* Table.Write(args...) with one value for each column, given as a
\* positional list, as a map or as a struct.
TableWriteRow(t, shape, vals) ==
    [TableWrite(t, TRUE, 0).hdu EXCEPT
        !.bytes = writeCols(t, t.bytes \o Zeros(t.rowsz), passedValues(t, shape, vals),
                            Len(t.cols))]

\* Rows.Scan of the row irow into a sink with a place for each column: the
\* value of each column.
ScanRow(t, irow) ==
    [i \in 1..Len(t.cols) |->
        readBin(t.cols[i],
                SubSeq(t.bytes, t.rowsz * irow + rowOffset(t.cols, i - 1) + 1,
                       t.rowsz * irow + rowOffset(t.cols, i)))]

\* The values of the table model.
Int64Values == {-1, 10}

StringValues == {<<97>>, <<97, 98>>}

Shapes == {"list", "map", "struct"}

TableCols == <<Column("id", "1K"), Column("tag", "3A")>>

InitTable ==
    /\ RowsIdle
    /\ HeaderIdle
    /\ objs = [i \in 1..MaxObjs |->
                 IF i = 1 THEN WithBytes(NewTable("events", TableCols, BINARY_TBL))
                 ELSE WithBytes(NewPrimaryHDU(NewDefaultHeader))]
    /\ file = Create
    /\ fobs = NoCall
    /\ rfile = [open |-> FALSE]
    /\ iobs = [stage |-> "none"]
    /\ tobs = [written |-> <<>>, op |-> "new"]

\* tbl.Write(&id, &tag), tbl.Write(&map) or tbl.Write(&struct)
DoTableWriteRow ==
    /\ Len(tobs.written) < MaxWritten
    /\ \E shape \in Shapes, id \in Int64Values, tag \in StringValues :
          /\ objs' = [objs EXCEPT ![1] = TableWriteRow(objs[1], shape, <<id, tag>>)]
          /\ tobs' = [written |-> Append(tobs.written, <<id, tag>>), op |-> "Write",
                      shape |-> shape]
    /\ UNCHANGED <<file, fobs, rfile, iobs, rowsVars, hdrVars>>

\* rows.Scan(...) on a row of the table of the program
DoScanRow ==
    /\ tobs.op # "new"
    /\ \E shape \in Shapes, irow \in 0..(objs[1].nrows - 1) :
          tobs' = [written |-> tobs.written, op |-> "Scan", shape |-> shape, from |-> "table",
                   irow |-> irow, vals |-> ScanRow(objs[1], irow)]
    /\ UNCHANGED <<fileVars, rfile, iobs, rowsVars, hdrVars>>

\* rows.Scan(...) on a row of a table of the file that was reopened
DoScanFileRow ==
    /\ rfile.open /\ rfile.err = ErrNil
    /\ \E shape \in Shapes, k \in 1..Len(rfile.hdus) :
          /\ rfile.hdus[k].gotype = "Table"
          /\ \E irow \in 0..(rfile.hdus[k].nrows - 1) :
                tobs' = [written |-> tobs.written, op |-> "Scan", shape |-> shape,
                         from |-> "file", irow |-> irow, vals |-> ScanRow(rfile.hdus[k], irow)]
    /\ UNCHANGED <<fileVars, rfile, iobs, rowsVars, hdrVars>>

NextSpecTable == DoTableWriteRow \/ DoFileWrite \/ DoOpen \/ DoScanRow \/ DoScanFileRow

SpecTable == InitTable /\ [][NextSpecTable]_vars

\* C2: every row written to a binary table with Table.Write from a
\* positional list, a map or a struct and read back with Rows.Scan yields
\* for every column the value the caller passed to Write, also after the
\* table was written to a file and reopened.
C2_TableRoundTrip ==
    (tobs.written # <<>> /\ tobs.op = "Scan") => tobs.vals = tobs.written[tobs.irow + 1]

----------------------------------------------------------------------------
(* The Rows cursor: Table.ReadRange, Rows.Next, Rows.Scan, Rows.Close,     *)
(* Rows.Err.                                                               *)

\* Bounds of the cursor model.
MaxRows == 3

MaxCols == 2

MaxStride == 2

MaxCalls == 4

\* The error values a cursor operation can return.
ErrNoArgs == "fitsio: Rows.Scan needs at least one argument"

ErrArgCount == "fitsio.Rows.Scan: invalid number of arguments"

ErrRead == "fitsio: column read error"

\* Table.ReadRange(beg, end, inc): clamp end to the row count and beg to 0,
\* the cursor starts one stride before beg.
ReadRangeRows(t, beg, end, inc) ==
    LET e == IF end > t.nrows THEN t.nrows ELSE end
        b == IF beg < 0 THEN 0 ELSE beg
    IN  [open |-> TRUE, ncols |-> t.ncols, i |-> b, n |-> e, inc |-> inc,
         cur |-> b - inc, closed |-> FALSE, table |-> TRUE, err |-> ErrNil]

\* Rows.Close: idempotent, drops the table, returns nil.
CloseRows(r) ==
    IF r.closed THEN r ELSE [r EXCEPT !.closed = TRUE, !.table = FALSE]

NextResultOffByOne(r) == IF r.closed THEN FALSE ELSE r.i <= r.n

\* A Next that does not look at rows.closed.
NextResultUnguarded(r) == r.i < r.n

\* The value Rows.Next returns.
NextResult(r) == IF r.closed THEN FALSE ELSE r.i < r.n

\* Rows.Next: the cursor after the call.
NextRows(r) ==
    IF r.closed THEN r
    ELSE LET moved == [r EXCEPT !.cur = r.cur + r.inc, !.i = r.i + r.inc]
         IN  IF r.i < r.n THEN moved
             ELSE [CloseRows(moved) EXCEPT !.err = ErrNil]

\* Column.read of the current row: it fails on a sink of a kind the column
\* codec does not handle and on a cell whose text does not parse.
ColumnRead(t, r, sinkok) == IF sinkok /\ r.cur \notin t.bad THEN ErrNil ELSE ErrRead

\* Rows.scan: the positional list.
scan(t, r, nargs, sinkok) ==
    IF nargs # r.ncols THEN ErrArgCount
    ELSE IF r.ncols = 0 THEN ErrNil
    ELSE ColumnRead(t, r, sinkok)

\* Rows.scanMap: every column (empty map) or the known keys of the map.
scanMap(t, r, nkeys) ==
    LET ncols == IF nkeys = 0 THEN r.ncols ELSE Min(nkeys, r.ncols)
    IN  IF ncols = 0 THEN ErrNil ELSE ColumnRead(t, r, TRUE)

\* Rows.scanStruct: the fields that match a column.
scanStruct(t, r, nfields, sinkok) ==
    IF Min(nfields, r.ncols) = 0 THEN ErrNil ELSE ColumnRead(t, r, sinkok)

\* The error Rows.Scan returns for a sink of the given shape.
ScanResult(t, r, shape, nargs, sinkok) ==
    IF shape = "list" /\ nargs = 0 THEN ErrNoArgs
    ELSE IF shape = "map" THEN scanMap(t, r, nargs)
    ELSE IF shape = "struct" THEN scanStruct(t, r, nargs, sinkok)
    ELSE scan(t, r, nargs, sinkok)

\* The error Rows.Scan leaves in rows.err: the deferred assignment stores the
\* local err, which only the struct branch assigns.
ScanLatched(t, r, shape, nargs, sinkok) ==
    IF shape = "struct" THEN scanStruct(t, r, nargs, sinkok) ELSE ErrNil

ScanRowsClosing(t, r, shape, nargs, sinkok) ==
    IF ScanResult(t, r, shape, nargs, sinkok) # ErrNil
    THEN [CloseRows(r) EXCEPT !.err = ScanResult(t, r, shape, nargs, sinkok)]
    ELSE [r EXCEPT !.err = ErrNil]

\* Rows.Scan: the cursor after the call.
ScanRows(t, r, shape, nargs, sinkok) ==
    [r EXCEPT !.err = ScanLatched(t, r, shape, nargs, sinkok)]

\* Rows.Err.
Err(r) == r.err

InitRows ==
    /\ HeaderIdle
    /\ FileIdle
    /\ ImageIdle
    /\ rows = NoRows
    /\ \E nr \in 0..MaxRows, nc \in 1..MaxCols, bad \in SUBSET (0..MaxRows-1) :
          /\ \A x \in bad : x < nr
          /\ Cardinality(bad) <= 1
          /\ rtab = [nrows |-> nr, ncols |-> nc, bad |-> bad]
    /\ robs = NoObs

\* t.ReadRange(beg, end, inc)
ReadRange ==
    /\ ~rows.open
    /\ \E beg \in -1..MaxRows, end \in -1..(MaxRows + 1), inc \in -1..MaxStride :
          /\ rows' = ReadRangeRows(rtab, beg, end, inc)
          /\ robs' = [op |-> "ReadRange", beg |-> beg, end |-> end, inc |-> inc,
                      visited |-> <<>>, calls |-> 0, ret |-> ErrNil, at |-> 0,
                      failed |-> FALSE, badcount |-> FALSE, userclosed |-> FALSE,
                      exhausted |-> FALSE, wasclosed |-> FALSE, shape |-> "none",
                      nargs |-> 0]
    /\ UNCHANGED rtab
    /\ UNCHANGED hdrVars
    /\ UNCHANGED fileVars
    /\ UNCHANGED imgVars

\* rows.Next()
Next ==
    /\ rows.open
    /\ robs.calls < MaxCalls \/ rows.inc >= 1
    /\ rows' = NextRows(rows)
    /\ robs' = [robs EXCEPT !.op = "Next", !.ret = NextResult(rows), !.at = rows.i,
                   !.wasclosed = rows.closed,
                   !.visited = IF NextResult(rows) THEN Append(@, rows'.cur) ELSE @,
                   !.calls = IF rows.closed THEN @ ELSE @ + 1,
                   !.exhausted = @ \/ (~rows.closed /\ ~NextResult(rows))]
    /\ UNCHANGED rtab
    /\ UNCHANGED hdrVars
    /\ UNCHANGED fileVars
    /\ UNCHANGED imgVars

\* rows.Scan(args...): called on the row the last Next made current.
Scan ==
    /\ rows.open /\ ~rows.closed
    /\ robs.op \in {"Next", "Scan"} /\ Len(robs.visited) > 0
    /\ rows.cur \in 0..(rtab.nrows - 1)
    /\ \E shape \in {"list", "map", "struct"}, nargs \in 0..(MaxCols + 1), sinkok \in BOOLEAN :
          /\ shape = "map" => sinkok
          /\ rows' = ScanRows(rtab, rows, shape, nargs, sinkok)
          /\ robs' = [robs EXCEPT !.op = "Scan", !.shape = shape, !.nargs = nargs,
                         !.ret = ScanResult(rtab, rows, shape, nargs, sinkok),
                         !.failed = @ \/ ScanResult(rtab, rows, shape, nargs, sinkok) # ErrNil,
                         !.badcount = @ \/ (shape = "list" /\ nargs # rows.ncols)]
    /\ UNCHANGED rtab
    /\ UNCHANGED hdrVars
    /\ UNCHANGED fileVars
    /\ UNCHANGED imgVars

\* rows.Close()
Close ==
    /\ rows.open
    /\ rows' = CloseRows(rows)
    /\ robs' = [robs EXCEPT !.op = "Close", !.ret = ErrNil, !.userclosed = TRUE]
    /\ UNCHANGED rtab
    /\ UNCHANGED hdrVars
    /\ UNCHANGED fileVars
    /\ UNCHANGED imgVars

NextSpecRows == ReadRange \/ Next \/ Scan \/ Close

SpecRows == InitRows /\ [][NextSpecRows]_vars

----------------------------------------------------------------------------
(* Properties of the Rows cursor.                                          *)

\* The rows a `for i = max(0,a); i < min(b,n); i += s` loop visits.
RangeLo == Max(0, robs.beg)

RangeHi == Min(robs.end, rtab.nrows)

RangeCount ==
    IF RangeHi > RangeLo THEN (RangeHi - RangeLo + robs.inc - 1) \div robs.inc ELSE 0

RangeRows == [k \in 1..RangeCount |-> RangeLo + (k - 1) * robs.inc]

IsPrefix(s, t) == Len(s) <= Len(t) /\ \A k \in 1..Len(s) : s[k] = t[k]

C7_ScanErrorCloses ==
    rows.open =>
        /\ (robs.op = "Scan" /\ robs.ret # ErrNil) => rows.closed
        /\ (robs.failed /\ robs.op = "Next") => ~robs.ret

\* C7 as amended: a Scan that returns an error leaves the cursor open, and a
\* subsequent Next returns false only once the range is exhausted or the
\* cursor was closed by Close.
C7_ScanErrorKeepsOpen ==
    rows.open =>
        /\ (robs.op = "Scan" /\ robs.ret # ErrNil) => ~rows.closed
        /\ (robs.failed /\ robs.op = "Next") => (robs.ret <=> (~robs.wasclosed /\ robs.at < rows.n))
        /\ (robs.failed /\ robs.op = "Next" /\ ~robs.ret) => (robs.userclosed \/ robs.exhausted)

C7_Witness ==
    /\ rows.open /\ robs.failed /\ robs.op = "Next" /\ robs.ret
    /\ Len(robs.visited) >= 2

\* C8: after Rows.Scan returns an error e, Rows.Err returns e, whatever the
\* sink shape and whichever check failed.
C8_ScanErrorLatched ==
    (rows.open /\ robs.op = "Scan" /\ robs.ret # ErrNil) => Err(rows) = robs.ret

\* C9: a Scan with a number of positional pointers different from the column
\* count returns an error and does not end the iteration: Next still returns
\* true once for every remaining row, and Err is nil after exhaustion.
C9_BadCountScanKeepsIterating ==
    rows.open =>
        /\ (robs.op = "Scan" /\ robs.shape = "list" /\ robs.nargs # rows.ncols) =>
              (robs.ret # ErrNil /\ ~rows.closed)
        /\ (robs.badcount /\ ~robs.userclosed /\ ~robs.exhausted) => ~rows.closed
        /\ (robs.badcount /\ robs.inc >= 1 /\ robs.exhausted) =>
              (robs.visited = RangeRows /\ Err(rows) = ErrNil)

C9_Witness ==
    /\ rows.open /\ robs.badcount /\ robs.exhausted /\ robs.inc = 1
    /\ Len(robs.visited) = 3 /\ Err(rows) = ErrNil

\* C20: after Rows.Close, every further Next returns false and every
\* further Close returns nil, and neither call changes the value that Err
\* returns; the cursor stays closed.
C20_ClosedStaysClosed ==
    [][(rows.open /\ rows.closed) =>
          /\ rows'.closed
          /\ Err(rows') = Err(rows)
          /\ robs'.op = "Next" => ~robs'.ret
          /\ robs'.op = "Close" => robs'.ret = ErrNil]_vars

\* A Next on a cursor the caller closed before the end of the range, after a
\* Scan left an error in the cursor.
C20_Witness ==
    /\ rows.open /\ rows.closed /\ rows.i < rows.n /\ Err(rows) # ErrNil
    /\ robs.userclosed /\ robs.op = "Next" /\ robs.wasclosed /\ ~robs.ret
    /\ robs.visited # <<>>

----------------------------------------------------------------------------
(* The lines of a card, character by character: makeHeaderLine,            *)
(* parseHeaderLine, processString and the CONTINUE loop of DecodeHDU.      *)
(* A text is a sequence of one-character strings; the name, the string     *)
(* value and the comment of a card of this part are texts.                 *)

\* Bound of the card model: the length of the short string values.
MaxText == 2

\* The number of characters of a header line.
kLINE == 80

\* The digits after the point a float64 value of the model has: a value is
\* held as its number of units of 10^-FloatDigits.
FloatDigits == 7

kCONTINUE == <<"C", "O", "N", "T", "I", "N", "U", "E">>

kCOMMENT == <<"C", "O", "M", "M", "E", "N", "T", " ">>

kHISTORY == <<"H", "I", "S", "T", "O", "R", "Y", " ">>

kEND == <<"E", "N", "D", " ", " ", " ", " ", " ">>

kEMPTY == <<" ", " ", " ", " ", " ", " ", " ", " ">>

kHIERARCH == <<"H", "I", "E", "R", "A", "R", "C", "H", " ">>

Spaces(n) == [i \in 1..n |-> " "]

\* fmt's %-ws and %ws
PadRight(txt, w) == txt \o Spaces(Max(0, w - Len(txt)))

PadLeft(txt, w) == Spaces(Max(0, w - Len(txt))) \o txt

DigitChars == <<"0", "1", "2", "3", "4", "5", "6", "7", "8", "9">>

RECURSIVE Digits(_)
\* The decimal digits of a natural number.
Digits(n) ==
    IF n < 10 THEN <<DigitChars[n + 1]>>
    ELSE Digits(n \div 10) \o <<DigitChars[(n % 10) + 1]>>

\* fmt's %d
IntText(v) == IF v < 0 THEN <<"-">> \o Digits(-v) ELSE Digits(v)

RECURSIVE Pow10(_)
Pow10(n) == IF n = 0 THEN 1 ELSE 10 * Pow10(n - 1)

\* The digits of n on w places, with leading zeros.
ZeroPad(n, w) == [i \in 1..Max(0, w - Len(Digits(n))) |-> "0"] \o Digits(n)

\* The number of 10^-6 nearest to u units of 10^-FloatDigits.
Micro(u) == (u + (Pow10(FloatDigits - 6) \div 2)) \div Pow10(FloatDigits - 6)

\* fmt's %f for a value of u units: six digits after the point.
FloatText(u) ==
    (IF u < 0 THEN <<"-">> ELSE <<>>)
    \o Digits(Micro(IF u < 0 THEN -u ELSE u) \div Pow10(6))
    \o <<".">>
    \o ZeroPad(Micro(IF u < 0 THEN -u ELSE u) % Pow10(6), 6)

\* The characters verifyCardName accepts before the trailing blanks.
NameChars ==
    {"A", "B", "C", "D", "E", "F", "G", "H", "I", "J", "K", "L", "M", "N", "O", "P", "Q",
     "R", "S", "T", "U", "V", "W", "X", "Y", "Z", "-", "_"}
        \cup {DigitChars[i] : i \in 1..10}

\* verifyCardName(card) = nil
verifyCardName(name) ==
    /\ \A i \in 1..Len(name) : name[i] \in NameChars \cup {" "}
    /\ \A i, j \in 1..Len(name) : (i < j /\ name[i] = " ") => name[j] = " "

HasPrefix(txt, p) == Len(txt) >= Len(p) /\ SubSeq(txt, 1, Len(p)) = p

\* The text names one of the three free-form cards.
IsFreeForm(name) == name \in {<<>>, SubSeq(kCOMMENT, 1, 7), SubSeq(kHISTORY, 1, 7)}

RECURSIVE freeFormLines(_, _)
\* The lines of a COMMENT, HISTORY or blank card: 72 characters of the
\* comment on each.
freeFormLines(name, str) ==
    IF str = <<>> THEN <<>>
    ELSE PadRight(name, 8) \o PadRight(SubSeq(str, 1, Min(72, Len(str))), 72)
         \o freeFormLines(name, SubSeq(str, Min(72, Len(str)) + 1, Len(str)))

\* fmt.Sprintf("'%-8s'", v): the quotes of v are written as they are.
quoted(v) == <<"'">> \o PadRight(v, 8) \o <<"'">>

RECURSIVE continueLines(_, _)
\* The CONTINUE lines for the characters of v from index i on: 67 characters
\* on each, followed by '&' unless the line ends beyond the end of v.
continueLines(v, i) ==
    IF i >= Len(v) THEN <<>>
    ELSE IF i + 67 > Len(v)
    THEN kCONTINUE \o Spaces(2) \o PadRight(quoted(SubSeq(v, i + 1, Len(v))), 20)
    ELSE kCONTINUE \o Spaces(2)
         \o PadRight(quoted(SubSeq(v, i + 1, i + 67) \o <<"&">>), 20)
         \o continueLines(v, i + 67)

\* The buffer filled up to the next 80-byte mark.
alignText(buf) == buf \o Spaces(align80(Len(buf)))

\* The string case of makeHeaderLine for the quoted value vstr.
stringText(buf, v, vstr) ==
    IF Len(vstr) < kLINE - Len(buf)
    THEN [buf |-> buf \o PadRight(vstr, 20), n |-> Max(20, Len(vstr)),
          buflen |-> Len(buf), ok |-> TRUE]
    ELSE IF kLINE - Len(buf) - 3 < 0 \/ kLINE - Len(buf) - 3 > Len(v)
    THEN [buf |-> buf, n |-> 0, buflen |-> Len(buf), ok |-> FALSE]
    ELSE [buf |-> alignText(buf
                     \o PadRight(quoted(SubSeq(v, 1, kLINE - Len(buf) - 3) \o <<"&">>), 20)
                     \o continueLines(v, kLINE - Len(buf) - 3)),
          n |-> 0, buflen |-> 0, ok |-> TRUE]

\* The text Fprintf writes for a value that is not a string.
scalarText(value) ==
    CASE value.t = "bool" -> PadLeft(IF value.v THEN <<"T">> ELSE <<"F">>, 20)
      [] value.t = "int" -> PadLeft(IntText(value.v), 20)
      [] value.t = "float64" -> PadLeft(FloatText(value.v), 20)

\* The switch of makeHeaderLine on the type of the value: the buffer, the
\* number n of bytes of the last Fprintf and buflen afterwards.
valueText(buf, value) ==
    IF value.t = "string"
    THEN stringText(buf, value.v, IF value.v = <<>> THEN <<"'", "'">> ELSE quoted(value.v))
    ELSE IF value.t \in {"bool", "int", "float64"}
    THEN [buf |-> buf \o scalarText(value), n |-> Len(scalarText(value)),
          buflen |-> Len(buf), ok |-> TRUE]
    ELSE [buf |-> buf, n |-> 0, buflen |-> Len(buf), ok |-> FALSE]

\* The end of makeHeaderLine for a card with a value: the comment goes on
\* the line when it fits and the value took one line, on COMMENT lines else.
commentText(card, val) ==
    IF ~val.ok THEN [line |-> <<>>, err |-> ErrPanic]
    ELSE IF val.n + val.buflen > kLINE THEN [line |-> <<>>, err |-> ErrHeaderLine]
    ELSE IF 3 + Len(card.Comment) > kLINE - (Len(val.buf) % kLINE)
            \/ (Len(val.buf) > kLINE /\ Len(val.buf) % kLINE = 0)
    THEN [line |-> alignText(alignText(val.buf)
                             \o freeFormLines(SubSeq(kCOMMENT, 1, 7), card.Comment)),
          err |-> ErrNil]
    ELSE [line |-> alignText(val.buf \o <<" ", "/", " ">> \o card.Comment), err |-> ErrNil]

\* The keyword and the value indicator: a normal keyword, or the HIERARCH
\* convention for a longer or an irregular one.
keyText(name) ==
    IF Len(name) <= 8 /\ verifyCardName(name) THEN PadRight(name, 8) \o <<"=", " ">>
    ELSE IF HasPrefix(name, kHIERARCH) THEN name \o <<"=", " ">>
    ELSE kHIERARCH \o name \o <<"=", " ">>

\* A card without a value: a normal keyword has no '=' and its comment is
\* cut at the end of the line.
undefinedText(card, key) ==
    IF Len(key) # 10 THEN key
    ELSE IF card.Comment = <<>> THEN SubSeq(key, 1, 8) \o Spaces(2)
    ELSE SubSeq(key, 1, 8) \o Spaces(2)
         \o SubSeq(<<" ", "/", " ">> \o card.Comment, 1, Min(3 + Len(card.Comment), kLINE - 10))

\* makeHeaderLine makes a 80-byte line (or more) for a header FITS block from a Card.
makeHeaderLine(card) ==
    IF IsFreeForm(card.Name)
    THEN [line |-> freeFormLines(card.Name, card.Comment), err |-> ErrNil]
    ELSE IF card.Name = SubSeq(kEND, 1, 3) THEN [line |-> PadRight(card.Name, kLINE), err |-> ErrNil]
    ELSE IF ~(Len(card.Name) <= 8 /\ verifyCardName(card.Name))
            /\ \E i \in 1..Len(card.Name) : card.Name[i] = "="
    THEN [line |-> <<>>, err |-> ErrHeaderLine]
    ELSE IF card.Value.t = "nil"
    THEN [line |-> alignText(undefinedText(card, keyText(card.Name))), err |-> ErrNil]
    ELSE commentText(card, valueText(keyText(card.Name), card.Value))

ErrNoQuote == "fitsio: string does not start with a quote"

ErrPremature == "fitsio: string ends prematurely"

ErrLineLength == "fitsio: invalid header line length"

ErrCardLine == "fitsio: invalid card line"

ErrComplex == "fitsio: complex keyword missing closing ')'"

ErrSyntax == "strconv: invalid syntax"

\* s[n:]
Drop(txt, n) == SubSeq(txt, n + 1, Len(txt))

\* strings.TrimRight(s, " "): up to the last character that is no blank
TrimRight(txt) ==
    SubSeq(txt, 1, Len(txt) - Cardinality({k \in 1..Len(txt) :
                                              \A j \in k..Len(txt) : txt[j] = " "}))

\* strings.TrimLeft(s, " "): from the first character that is no blank
TrimLeft(txt) ==
    Drop(txt, Cardinality({k \in 1..Len(txt) : \A j \in 1..k : txt[j] = " "}))

\* strings.TrimSpace(s), for texts whose white space is blanks
TrimSpace(txt) == TrimLeft(TrimRight(txt))

\* The index (from 0) of the first place where p occurs in txt, -1 without one.
FirstOf(ks) == IF ks = {} THEN -1 ELSE CHOOSE k \in ks : \A j \in ks : k <= j

IndexOf(txt, p) ==
    FirstOf({k \in 0..(Len(txt) - Len(p)) : SubSeq(txt, k + 1, k + Len(p)) = p})

\* One turn of the three-state loop of processString, for the character at
\* index i (0: before the opening quote, 1: in the string, 2: after a
\* quote); done once the loop has returned.
quoteStep(st, i, char) ==
    IF st.done THEN st
    ELSE IF st.state = 0
    THEN IF char # "'" THEN [st EXCEPT !.done = TRUE, !.idx = i, !.err = ErrNoQuote]
         ELSE [st EXCEPT !.state = 1]
    ELSE IF st.state = 1
    THEN IF char = "'" THEN [st EXCEPT !.state = 2]
         ELSE [st EXCEPT !.buf = Append(@, char)]
    ELSE IF char = "'" THEN [st EXCEPT !.state = 1, !.buf = Append(@, char)]
         ELSE [st EXCEPT !.done = TRUE, !.idx = i]

RECURSIVE quoteScan(_, _, _, _)
\* The loop of processString over the characters of s at the indices
\* lo..hi-1, in order: the first half, then the second.
quoteScan(s, lo, hi, st) ==
    IF hi - lo = 1 THEN quoteStep(st, lo, s[lo + 1])
    ELSE LET first == quoteScan(s, lo, (lo + hi) \div 2, st)
         IN  IF first.done THEN first ELSE quoteScan(s, (lo + hi) \div 2, hi, first)

\* What processString returns after the loop.
quoteEnd(s, st) ==
    IF st.done THEN [str |-> IF st.err = ErrNil THEN TrimRight(st.buf) ELSE <<>>,
                     idx |-> st.idx, err |-> st.err]
    ELSE IF s[Len(s)] = "'" THEN [str |-> TrimRight(st.buf), idx |-> Len(s), err |-> ErrNil]
    ELSE [str |-> <<>>, idx |-> 0, err |-> ErrPremature]

\* processString on a text: the string, the index after it and the error;
\* the index of the last character of an empty text is out of range.
processQuoted(s) ==
    IF s = <<>> THEN [str |-> <<>>, idx |-> 0, err |-> ErrPanic]
    ELSE quoteEnd(s, quoteScan(s, 0, Len(s),
                               [state |-> 0, buf |-> <<>>, idx |-> 0, done |-> FALSE,
                                err |-> ErrNil]))

IsDigits(txt) == txt # <<>> /\ \A i \in 1..Len(txt) : txt[i] \in {DigitChars[d] : d \in 1..10}

DigitValue(c) == CHOOSE d \in 0..9 : DigitChars[d + 1] = c

RECURSIVE TextNat(_)
TextNat(txt) ==
    IF txt = <<>> THEN 0
    ELSE 10 * TextNat(SubSeq(txt, 1, Len(txt) - 1)) + DigitValue(txt[Len(txt)])

\* The number without its sign, and the sign.
Unsigned(txt) == IF txt # <<>> /\ txt[1] \in {"+", "-"} THEN Tail(txt) ELSE txt

Signed(txt, n) == IF txt # <<>> /\ txt[1] = "-" THEN -n ELSE n

\* strconv.ParseInt(value, 10, 64), for the values an int of the model holds.
ParseInt(txt) ==
    IF IsDigits(Unsigned(txt))
    THEN [value |-> IntV(Signed(txt, TextNat(Unsigned(txt)))), err |-> ErrNil]
    ELSE [value |-> NilV, err |-> ErrSyntax]

\* The units of a number from the digits before and after the point.
UnitsOf(int, frac) ==
    TextNat(int) * Pow10(FloatDigits)
        + TextNat(SubSeq(frac, 1, Min(Len(frac), FloatDigits)))
              * Pow10(FloatDigits - Min(Len(frac), FloatDigits))

\* strconv.ParseFloat(value, 64) for a text in the notation of %f; the
\* exponent notation, which makeHeaderLine does not write, is left out.
ParseFloat(txt) ==
    IF IndexOf(txt, <<".">>) >= 0
       /\ IsDigits(SubSeq(Unsigned(txt), 1, IndexOf(Unsigned(txt), <<".">>)))
       /\ IsDigits(Drop(Unsigned(txt), IndexOf(Unsigned(txt), <<".">>) + 1))
    THEN [value |-> [t |-> "float64",
                     v |-> Signed(txt, UnitsOf(SubSeq(Unsigned(txt), 1,
                                                      IndexOf(Unsigned(txt), <<".">>)),
                                               Drop(Unsigned(txt),
                                                    IndexOf(Unsigned(txt), <<".">>) + 1)))],
          err |-> ErrNil]
    ELSE [value |-> NilV, err |-> ErrSyntax]

\* The end of parseHeaderLine: the comment is what follows the first '/'
\* after index i.
withComment(bline, name, value, i) ==
    IF IndexOf(Drop(bline, i), <<"/">>) < 0
    THEN [card |-> Card(name, value, <<>>), err |-> ErrNil]
    ELSE [card |-> Card(name, value,
                        TrimSpace(Drop(bline, i + IndexOf(Drop(bline, i), <<"/">>) + 1))),
          err |-> ErrNil]

\* The quoted string case: the string is cut at 70 characters.
parseString(bline, name, i, ps) ==
    IF ps.err # ErrNil THEN [card |-> Card(<<>>, NilV, <<>>), err |-> ps.err]
    ELSE withComment(bline, name,
                     StrV(IF Len(ps.str) <= 69 THEN ps.str ELSE SubSeq(ps.str, 1, 70)),
                     i + ps.idx)

\* The complex case; the two numbers are kept as the text between the
\* parentheses.
parseComplex(bline, name, i, idx) ==
    IF idx < 0 THEN [card |-> Card(<<>>, NilV, <<>>), err |-> ErrComplex]
    ELSE withComment(bline, name,
                     [t |-> "complex128", v |-> TrimSpace(SubSeq(bline, i + 1, i + idx + 1))],
                     i + idx + 1)

\* The integer, float or logical case for the token `value` that starts at
\* index i.
parseToken(bline, name, i, value, num) ==
    IF bline[i + 1] \in {DigitChars[d] : d \in 1..10} \cup {"+", "-"}
    THEN IF num.err # ErrNil THEN [card |-> Card(<<>>, NilV, <<>>), err |-> num.err]
         ELSE withComment(bline, name, num.value, i + Len(value))
    ELSE IF bline[i + 1] = "T" THEN withComment(bline, name, BoolV(TRUE), i + Len(value))
    ELSE IF bline[i + 1] = "F" THEN withComment(bline, name, BoolV(FALSE), i + Len(value))
    ELSE [card |-> Card(<<>>, NilV, <<>>), err |-> ErrCardLine]

\* The token of a number or of a logical value: up to the first " /".
tokenAt(bline, i) ==
    IF IndexOf(Drop(bline, i), <<" ", "/">>) < 0 THEN Drop(bline, i)
    ELSE SubSeq(bline, i + 1, i + IndexOf(Drop(bline, i), <<" ", "/">>))

\* strconv.ParseFloat for a token with one of ".DE", strconv.ParseInt else.
parseNumber(value) ==
    IF \E k \in 1..Len(value) : value[k] \in {".", "D", "E"} THEN ParseFloat(value)
    ELSE ParseInt(value)

\* The switch of parseHeaderLine on the first character of the value, at
\* index i.
parseAt(bline, name, i) ==
    IF i = Len(bline) THEN [card |-> Card(name, NilV, <<>>), err |-> ErrNil]
    ELSE IF bline[i + 1] = "/" THEN withComment(bline, name, NilV, i + 1)
    ELSE IF bline[i + 1] = "'" THEN parseString(bline, name, i, processQuoted(Drop(bline, i)))
    ELSE IF bline[i + 1] = "(" THEN parseComplex(bline, name, i, IndexOf(Drop(bline, i), <<")">>))
    ELSE parseToken(bline, name, i, tokenAt(bline, i), parseNumber(TrimSpace(tokenAt(bline, i))))

\* A card with a value indicator: the blanks before the value are skipped.
parseValue(bline, name, valpos) ==
    parseAt(bline, name, Len(bline) - Len(TrimLeft(Drop(bline, valpos))))

\* A CONTINUE line: the comment of the card is the quoted string.
parseContinue(ps) ==
    IF ps.err # ErrNil THEN [card |-> Card(<<>>, NilV, <<>>), err |-> ps.err]
    ELSE [card |-> Card(kCONTINUE, NilV, ps.str), err |-> ErrNil]

\* A line without a value: the comment extends from column 9 to column 80.
parseFreeForm(bline) ==
    IF HasPrefix(bline, kCOMMENT)
    THEN [card |-> Card(SubSeq(kCOMMENT, 1, 7), NilV, TrimRight(Drop(bline, 8))), err |-> ErrNil]
    ELSE IF HasPrefix(bline, kCONTINUE)
    THEN parseContinue(processQuoted(TrimSpace(Drop(bline, 8))))
    ELSE IF HasPrefix(bline, kHISTORY)
    THEN [card |-> Card(SubSeq(kHISTORY, 1, 7), NilV, TrimRight(Drop(bline, 8))), err |-> ErrNil]
    ELSE IF HasPrefix(bline, kEND)
    THEN [card |-> Card(SubSeq(kEND, 1, 3), NilV, TrimRight(Drop(bline, 8))), err |-> ErrNil]
    ELSE [card |-> Card(<<>>, NilV, TrimRight(Drop(bline, 8))), err |-> ErrNil]

\* parseHeaderLine parses a 80-byte line from an input header FITS block.
parseHeaderLine(bline) ==
    IF Len(bline) # kLINE THEN [card |-> Card(<<>>, NilV, <<>>), err |-> ErrLineLength]
    ELSE IF HasPrefix(bline, kHIERARCH)
    THEN IF IndexOf(bline, <<"=">>) < 0
         THEN [card |-> Card(<<>>, NilV, TrimRight(Drop(bline, 8))), err |-> ErrNil]
         ELSE parseValue(bline, TrimSpace(SubSeq(bline, 10, IndexOf(bline, <<"=">>))),
                         IndexOf(bline, <<"=">>) + 1)
    ELSE IF HasPrefix(bline, kCOMMENT) \/ HasPrefix(bline, kCONTINUE)
            \/ HasPrefix(bline, kHISTORY) \/ HasPrefix(bline, kEND)
            \/ HasPrefix(bline, kEMPTY) \/ ~HasPrefix(Drop(bline, 8), <<"=", " ">>)
    THEN parseFreeForm(bline)
    ELSE parseValue(bline, TrimSpace(SubSeq(bline, 1, 8)), 10)

\* The CONTINUE case of the loop of DecodeHDU: the string of the last card
\* loses its last character and takes the fragment.
continueCard(last, fragment) ==
    IF Len(last.Value.v) > 0
    THEN [last EXCEPT !.Value.v = SubSeq(@, 1, Len(@) - 1) \o fragment]
    ELSE last

RECURSIVE decodeLines(_, _)
\* One turn of the loop of DecodeHDU over the lines, for the card p that
\* parseHeaderLine returned.
decodeLine(rest, slice, p) ==
    IF p.err # ErrNil THEN [cards |-> slice, err |-> p.err]
    ELSE IF p.card.Name = kCONTINUE
    THEN IF slice = <<>> \/ slice[Len(slice)].Value.t # "string"
         THEN [cards |-> slice, err |-> ErrPanic]
         ELSE decodeLines(rest, [slice EXCEPT ![Len(slice)] = continueCard(@, p.card.Comment)])
    ELSE IF p.card.Name = SubSeq(kEND, 1, 3)
    THEN [cards |-> Append(slice, p.card), err |-> ErrNil]
    ELSE decodeLines(rest, Append(slice, p.card))

\* The loop of DecodeHDU over the 80-byte lines of `bytes`.
decodeLines(bytes, slice) ==
    IF bytes = <<>> THEN [cards |-> slice, err |-> ErrNil]
    ELSE decodeLine(Drop(bytes, Min(kLINE, Len(bytes))), slice,
                    parseHeaderLine(SubSeq(bytes, 1, Min(kLINE, Len(bytes)))))

\* The cards the card model encodes.
TextPool == UNION {[1..n -> {"a", "'"}] : n \in 0..MaxText}

CardNames == {<<"K", "E", "Y">>, <<"L", "O", "N", "G", "-", "N", "A", "M", "E">>}

CardValues ==
    {BoolV(TRUE), BoolV(FALSE), IntV(0), IntV(-42), IntV(2026)}
        \cup {StrV(txt) : txt \in TextPool}
        \cup {StrV(<<"a", " ", "b">>), StrV([i \in 1..68 |-> "a"]), StrV([i \in 1..134 |-> "b"])}
        \cup {[t |-> "float64", v |-> u] : u \in {0, 5000000, -12500000, 1}}

CardComments == {<<>>, <<"c">>, <<"a", "/", "b">>, [i \in 1..60 |-> "c"]}

InitCard ==
    /\ RowsIdle
    /\ FileIdle
    /\ ImageIdle
    /\ \E name \in CardNames, value \in CardValues, comment \in CardComments :
          hdr = [cards |-> <<Card(name, value, comment)>>]
    /\ hobs = [op |-> "new", line |-> <<>>, err |-> ErrNil, cards |-> <<>>]

\* makeHeaderLine(&card), for the card of the header
DoMakeHeaderLine ==
    /\ hobs.op = "new"
    /\ \E m \in {makeHeaderLine(hdr.cards[1])} :
          hobs' = [hobs EXCEPT !.op = "makeHeaderLine", !.line = m.line, !.err = m.err]
    /\ UNCHANGED <<hdr, rowsVars, fileVars, imgVars>>

\* the loop of DecodeHDU over the lines makeHeaderLine returned
DoParseLines ==
    /\ hobs.op = "makeHeaderLine" /\ hobs.err = ErrNil
    /\ \E d \in {decodeLines(hobs.line, <<>>)} :
          hobs' = [hobs EXCEPT !.op = "parseHeaderLine", !.cards = d.cards, !.err = d.err]
    /\ UNCHANGED <<hdr, rowsVars, fileVars, imgVars>>

NextSpecCard == DoMakeHeaderLine \/ DoParseLines

SpecCard == InitCard /\ [][NextSpecCard]_vars

\* C11: for every valid card with a bool, integer, float or string value,
\* with or without a comment, the lines makeHeaderLine emits are parsed, the
\* CONTINUE lines reassembled as the decoder does, into a card with the same
\* name, value and comment.
C11_CardRoundTrip ==
    hobs.op = "parseHeaderLine" =>
        /\ hobs.err = ErrNil
        /\ hobs.cards # <<>>
        /\ hobs.cards[1] = hdr.cards[1]

----------------------------------------------------------------------------
(* Streams of other writers: Open over a stream this library did not       *)
(* write, File.Close and the stream the File was given.                    *)

\* Bounds of the stream model: the HDUs of a stream and the calls of
\* File.Close.
MaxHDUs == 2

MaxCloses == 2

\* (*os.File).Close on a file that is closed already.
ErrClosed == "close: file already closed"

\* The HDU a writer put in a stream: the cards of its header, without the
\* END card, and the bytes of its payload before the padding.
Segment(cards, bytes) ==
    [hoff |-> 0, doff |-> alignBlock(80 * (Len(cards) + 1)),
     end |-> alignBlock(80 * (Len(cards) + 1)) + alignBlock(Len(bytes)),
     cards |-> cards, bytes |-> bytes]

\* The cards of a primary HDU of one axis of n pixels of one byte.
PrimaryCards(n) ==
    << Card("SIMPLE", BoolV(TRUE), ""), Card("BITPIX", IntV(8), ""),
       Card("NAXIS", IntV(1), ""), Card("NAXIS1", IntV(n), "") >>

\* The cards of an image extension of one axis of n pixels of one byte.
ExtensionCards(n) ==
    << Card("XTENSION", StrV("IMAGE   "), ""), Card("BITPIX", IntV(8), ""),
       Card("NAXIS", IntV(1), ""), Card("NAXIS1", IntV(n), ""),
       Card("PCOUNT", IntV(0), ""), Card("GCOUNT", IntV(1), "") >>

\* The cards of a binary table of one row of rowsz bytes with one column of
\* 8 bytes.
TableCards(rowsz) ==
    << Card("XTENSION", StrV("BINTABLE"), ""), Card("BITPIX", IntV(8), ""),
       Card("NAXIS", IntV(2), ""), Card("NAXIS1", IntV(rowsz), ""),
       Card("NAXIS2", IntV(1), ""), Card("PCOUNT", IntV(0), ""),
       Card("GCOUNT", IntV(1), ""), Card("TFIELDS", IntV(1), ""),
       Card("TTYPE1", StrV("id"), ""), Card("TFORM1", StrV("1K"), "") >>

\* The cards of an ASCII table of one row of 17 characters: a column I6 at
\* character 1, a blank, and a column A10 at character 8.
TextCards ==
    << Card("XTENSION", StrV("TABLE   "), ""), Card("BITPIX", IntV(8), ""),
       Card("NAXIS", IntV(2), ""), Card("NAXIS1", IntV(17), ""),
       Card("NAXIS2", IntV(1), ""), Card("PCOUNT", IntV(0), ""),
       Card("GCOUNT", IntV(1), ""), Card("TFIELDS", IntV(2), ""),
       Card("TTYPE1", StrV("n"), ""), Card("TFORM1", StrV("I6"), ""),
       Card("TBCOL1", IntV(1), ""),
       Card("TTYPE2", StrV("tag"), ""), Card("TFORM2", StrV("A10"), ""),
       Card("TBCOL2", IntV(8), "") >>

\* The row of the ASCII table, "    42 abcdefghij", as bytes.
TextRow == <<32, 32, 32, 32, 52, 50, 32, 97, 98, 99, 100, 101, 102, 103, 104, 105, 106>>

\* The HDUs of the streams: a primary HDU, an image extension, primary HDUs
\* that repeat the NAXIS1 card, the BITPIX card or a card of the user, and
\* binary tables whose NAXIS1 is and is not the size of the column, and an
\* ASCII table with TBCOLn cards.
SegmentPool ==
    { Segment(PrimaryCards(2), <<1, 2>>),
      Segment(ExtensionCards(2), <<3, 4>>),
      Segment(PrimaryCards(2) \o <<Card("NAXIS1", IntV(3), "")>>, <<1, 2, 3>>),
      Segment(<<Card("SIMPLE", BoolV(TRUE), ""), Card("BITPIX", IntV(8), ""),
                Card("BITPIX", IntV(16), ""), Card("NAXIS", IntV(1), ""),
                Card("NAXIS1", IntV(1), "")>>, <<1, 2>>),
      Segment(PrimaryCards(2) \o <<Card("OBJECT", StrV("a"), ""),
                                   Card("OBJECT", StrV("b"), "")>>, <<1, 2>>),
      Segment(TableCards(8), Zeros(8)),
      Segment(TableCards(12), Zeros(12)),
      Segment(TextCards, TextRow) }

\* The streams: one to MaxHDUs HDUs, read from an *os.File, which is an
\* io.Closer, or from a reader that has no Close method.
Streams ==
    { [len |-> 0, hdus |-> segs, closer |-> c, closes |-> 0] :
        segs \in UNION {[1..n -> SegmentPool] : n \in 1..MaxHDUs}, c \in BOOLEAN }

\* The card list repeats a name that is not free-form.
Repeats(cards) ==
    \E i, j \in 1..Len(cards) :
        i < j /\ cards[i].Name = cards[j].Name /\ cards[i].Name \notin FreeForm

\* A header of the stream repeats a name that is not free-form.
StreamRepeats(sink) == \E k \in 1..Len(sink.hdus) : Repeats(sink.hdus[k].cards)

\* The closers of a File: the stream when it is an io.Closer, then the HDUs
\* of the file, whose Close does nothing and returns nil.
closers(sink, hdus) ==
    (IF sink.closer THEN <<"stream">> ELSE <<>>) \o [k \in 1..Len(hdus) |-> "hdu"]

\* File.Close: Close is called on every closer, up to the first error; the
\* stream after the call and the error returned.
FileClose(sink, hdus) ==
    IF closers(sink, hdus) # <<>> /\ Head(closers(sink, hdus)) = "stream"
    THEN [sink |-> [sink EXCEPT !.closes = @ + 1],
          err |-> IF sink.closes = 0 THEN ErrNil ELSE ErrClosed]
    ELSE [sink |-> sink, err |-> ErrNil]

\* The end of Open: the deferred call of f.Close() when the loop failed.
openDeferred(sink, f) ==
    IF f.err # ErrNil THEN [file |-> f, sink |-> FileClose(sink, <<>>).sink]
    ELSE [file |-> f, sink |-> sink]

InitStream ==
    /\ RowsIdle
    /\ HeaderIdle
    /\ objs = <<>>
    /\ \E sink \in Streams : file = [open |-> FALSE, sink |-> sink]
    /\ fobs = [err |-> "none", closed |-> <<>>]
    /\ rfile = [open |-> FALSE]
    /\ iobs = [stage |-> "none"]
    /\ tobs = [written |-> <<>>, op |-> "new"]

\* f, err := fitsio.Open(r)
DoOpenStream ==
    /\ ~rfile.open /\ ~file.open
    /\ \E o \in {openDeferred(file.sink, Open(file.sink))} :
          /\ rfile' = o.file
          /\ file' = [file EXCEPT !.sink = o.sink]
          /\ fobs' = [err |-> o.file.err, closed |-> <<>>]
    /\ UNCHANGED <<objs, iobs, tobs, rowsVars, hdrVars>>

\* f, err := fitsio.Create(w)
DoCreateStream ==
    /\ ~rfile.open /\ ~file.open
    /\ file' = [open |-> TRUE, hdus |-> <<>>, sink |-> file.sink]
    /\ fobs' = [err |-> ErrNil, closed |-> <<>>]
    /\ UNCHANGED <<objs, rfile, iobs, tobs, rowsVars, hdrVars>>

\* f.Close(), on the File that Open or Create returned
DoFileClose ==
    /\ file.open \/ (rfile.open /\ rfile.err = ErrNil)
    /\ Len(fobs.closed) < MaxCloses
    /\ \E c \in {FileClose(file.sink, IF file.open THEN file.hdus ELSE rfile.hdus)} :
          /\ file' = [file EXCEPT !.sink = c.sink]
          /\ fobs' = [err |-> c.err, closed |-> Append(fobs.closed, c.err)]
    /\ UNCHANGED <<objs, rfile, iobs, tobs, rowsVars, hdrVars>>

\* strings.TrimSpace of the bytes of a cell.
trimBlanks(b) ==
    LET keep == {k \in 1..Len(b) : b[k] # 32}
    IN  IF keep = {} THEN <<>>
        ELSE SubSeq(b, CHOOSE k \in keep : \A j \in keep : k <= j,
                    CHOOSE k \in keep : \A j \in keep : j <= k)

\* Column.readTxt: the text of column icol at row irow that is parsed into
\* the value; the cell starts at col.offset, the sum of the sizes of the
\* columns before it.
readTxt(t, icol, irow) ==
    trimBlanks(SubSeq(t.bytes, t.rowsz * irow + rowOffset(t.cols, icol - 1) + 1,
                      t.rowsz * irow + rowOffset(t.cols, icol - 1)
                          + t.cols[icol].dtype.dsize))

\* rows.Scan(...) of a column of a row of an ASCII table of the file
DoReadTxt ==
    /\ rfile.open /\ rfile.err = ErrNil
    /\ \E k \in 1..Len(rfile.hdus) :
          /\ rfile.hdus[k].gotype = "Table" /\ ~rfile.hdus[k].binary
          /\ \E icol \in 1..Len(rfile.hdus[k].cols), irow \in 0..(rfile.hdus[k].nrows - 1) :
                tobs' = [written |-> <<>>, op |-> "readTxt", hdu |-> k, icol |-> icol,
                         irow |-> irow, text |-> readTxt(rfile.hdus[k], icol, irow)]
    /\ UNCHANGED <<fileVars, rfile, iobs, rowsVars, hdrVars>>

NextSpecStream == DoOpenStream \/ DoCreateStream \/ DoFileClose \/ DoReadTxt

SpecStream == InitStream /\ [][NextSpecStream]_vars

\* C13: decoding a header that repeats a name that is not free-form
\* succeeds, and the first card of the name wins in every view of the
\* decoded header: the later cards of the name are not in its card list, and
\* its bitpix and its axes are those of the first BITPIX, NAXIS and NAXISn
\* cards, which are the cards Header.Get returns.
C13_FirstOccurrenceWins ==
    (rfile.open /\ StreamRepeats(file.sink)) =>
        /\ rfile.err = ErrNil
        /\ \A k \in 1..Len(rfile.hdus) :
              /\ ~Repeats(rfile.hdus[k].hdr.cards)
              /\ rfile.hdus[k].hdr.bitpix = HeaderValue(rfile.hdus[k].hdr.cards, "BITPIX").v
              /\ Len(rfile.hdus[k].hdr.axes) = HeaderValue(rfile.hdus[k].hdr.cards, "NAXIS").v
              /\ \A a \in 1..Len(rfile.hdus[k].hdr.axes) :
                    rfile.hdus[k].hdr.axes[a]
                        = HeaderValue(rfile.hdus[k].hdr.cards, axisName(a)).v

\* C14: File.Close never calls Close on the stream given to Open or to
\* Create, however many times it is called, and a second File.Close returns
\* what the first returned.
C14_CloseLeavesStream ==
    fobs.closed # <<>> =>
        /\ file.sink.closes = 0
        /\ \A n \in 1..Len(fobs.closed) : fobs.closed[n] = fobs.closed[1]

\* The HDU of a File is a primary HDU: its header carries a SIMPLE card.
IsPrimary(hdu) == HeaderHas(hdu.hdr.cards, "SIMPLE")

\* The stream starts with an extension, or has a SIMPLE card after its
\* first HDU.
Misplaced(sink) ==
    \E k \in 1..Len(sink.hdus) : (k = 1) # HeaderHas(sink.hdus[k].cards, "SIMPLE")

\* C15: in every File that Open returns, an HDU is a primary HDU if and only
\* if it is the first HDU of the list; Open returns an error for a stream
\* whose first HDU is an extension or that has a SIMPLE card in a later HDU.
C15_PrimaryIffFirst ==
    rfile.open =>
        /\ rfile.err = ErrNil =>
              \A k \in 1..Len(rfile.hdus) : IsPrimary(rfile.hdus[k]) <=> (k = 1)
        /\ Misplaced(file.sink) => rfile.err # ErrNil

\* The bytes the columns of a table take in a row: the running offset of
\* NewTable and of loadTable after the last column.
columnsSize(cols) == rowOffset(cols, Len(cols))

\* A table of the stream whose NAXIS1 is not the size of its columns.
Unfilled(sink) ==
    \E k \in 1..Len(sink.hdus) :
        /\ HeaderHas(sink.hdus[k].cards, "TFIELDS")
        /\ columnsSize(decodeCols(sink.hdus[k].cards))
              # HeaderValue(sink.hdus[k].cards, "NAXIS1").v

\* C17: in every Table that Open decodes, the sizes of the columns sum to
\* the row size of the table and to its NAXIS1 axis; Open fails for a
\* table header whose column sizes do not sum to NAXIS1.
C17_ColumnsFillRow ==
    rfile.open =>
        /\ rfile.err = ErrNil =>
              \A k \in 1..Len(rfile.hdus) :
                  rfile.hdus[k].gotype = "Table" =>
                      /\ columnsSize(rfile.hdus[k].cols) = rfile.hdus[k].rowsz
                      /\ rfile.hdus[k].rowsz = rfile.hdus[k].hdr.axes[1]
        /\ Unfilled(file.sink) => rfile.err # ErrNil

\* The cell of a row of a table that starts at character `start` of the
\* row, characters being counted from 1, and is `size` characters long.
cellAt(t, irow, start, size) ==
    SubSeq(t.bytes, t.rowsz * irow + start, t.rowsz * irow + start - 1 + size)

\* C19: when the header of an ASCII table carries a TBCOLn card, column n is
\* read from the bytes of the row that start at position TBCOLn-1 of the
\* row, whatever the widths of the columns before it.
C19_ColumnAtTBCOL ==
    tobs.op = "readTxt" =>
        tobs.text = trimBlanks(cellAt(rfile.hdus[tobs.hdu], tobs.irow,
                                      rfile.hdus[tobs.hdu].cols[tobs.icol].Start,
                                      rfile.hdus[tobs.hdu].cols[tobs.icol].dtype.dsize))

----------------------------------------------------------------------------
(* CopyTable and CopyTableRange between two tables of the same columns,    *)
(* followed byte by byte.                                                  *)

\* The rows of the tables of the copy model.
CopyRows == {<<id, tag>> : id \in Int64Values, tag \in StringValues}

RECURSIVE tableOf(_, _)
\* The table NewTable creates for the columns TableCols, after Table.Write
\* of the first n rows of `written`.
tableOf(written, n) ==
    IF n = 0 THEN WithBytes(NewTable("events", TableCols, BINARY_TBL))
    ELSE TableWriteRow(tableOf(written, n - 1), "list", written[n])

\* The tables of the copy model: no row, or up to MaxTableRows rows.
CopyTables ==
    {tableOf(written, Len(written)) :
        written \in UNION {[1..n -> CopyRows] : n \in 0..MaxTableRows}}

InitCopy ==
    /\ RowsIdle
    /\ HeaderIdle
    /\ ImageIdle
    /\ objs \in [1..2 -> CopyTables]
    /\ file = [open |-> FALSE]
    /\ fobs = [op |-> "none"]

\* What the caller sees of CopyTableRange(dst, src, beg, end) on the tables
\* objs[1] and objs[2]: the tables before the call and the error.
copied(c, beg, end) ==
    [op |-> "CopyTableRange", err |-> c.err, beg |-> beg, end |-> end,
     dst |-> objs[1], src |-> objs[2]]

\* CopyTableRange(dst, src, beg, end); dst.data has no capacity when the
\* table comes from NewTable and nothing was written to it.
DoCopyRange ==
    /\ objs[1].nrows <= MaxTableRows
    /\ \E beg, end \in 0..MaxTableRows, roomy \in BOOLEAN :
          /\ beg <= end /\ end <= objs[2].nrows
          /\ objs[1].data = 0 => ~roomy
          /\ \E c \in {CopyTableRange(objs[1], objs[2], beg, end, roomy)} :
                /\ objs' = [objs EXCEPT ![1] = c.hdu]
                /\ fobs' = copied(c, beg, end)
    /\ UNCHANGED <<file, rowsVars, hdrVars, imgVars>>

\* CopyTable(dst, src)
DoCopyTable ==
    /\ objs[1].nrows <= MaxTableRows
    /\ \E roomy \in BOOLEAN :
          /\ objs[1].data = 0 => ~roomy
          /\ \E c \in {CopyTableRange(objs[1], objs[2], 0, objs[2].nrows, roomy)} :
                /\ objs' = [objs EXCEPT ![1] = c.hdu]
                /\ fobs' = copied(c, 0, objs[2].nrows)
    /\ UNCHANGED <<file, rowsVars, hdrVars, imgVars>>

NextSpecCopy == DoCopyRange \/ DoCopyTable

SpecCopy == InitCopy /\ [][NextSpecCopy]_vars

\* C16: for tables dst and src of the same columns, without a column of
\* variable length, and 0 <= beg <= end <= src.NumRows(),
\* CopyTableRange(dst, src, beg, end) returns nil and leaves in dst its
\* previous rows followed by the rows beg..end-1 of src, NumRows and the
\* NAXIS2 axis of dst increased by end-beg and src as it was; dst may be a
\* table NewTable just created.
C16_CopyAppendsRows ==
    fobs.op = "CopyTableRange" =>
        /\ fobs.err = ErrNil
        /\ objs[1].bytes = fobs.dst.bytes
                              \o SubSeq(fobs.src.bytes, fobs.src.rowsz * fobs.beg + 1,
                                        fobs.src.rowsz * fobs.end)
        /\ objs[1].nrows = fobs.dst.nrows + (fobs.end - fobs.beg)
        /\ objs[1].hdr.axes[2] = fobs.dst.hdr.axes[2] + (fobs.end - fobs.beg)
        /\ objs[2] = fobs.src

----------------------------------------------------------------------------
(* A string column of a binary table: Column.writeBin and Column.readBin   *)
(* for strings shorter than, as long as and longer than the column.        *)

\* The length of the longest string the program writes.
MaxStr == 4

\* The formats of the string columns.
StringForms == {"1A", "2A", "3A"}

\* The strings the program writes: up to MaxStr characters 'a' and 'b'.
Strings == UNION {[1..n -> {97, 98}] : n \in 0..MaxStr}

InitString ==
    /\ RowsIdle
    /\ HeaderIdle
    /\ \E form \in StringForms :
          objs = <<WithBytes(NewTable("names", <<Column("name", form)>>, BINARY_TBL))>>
    /\ file = [open |-> FALSE]
    /\ fobs = [err |-> "none"]
    /\ rfile = [open |-> FALSE]
    /\ iobs = [stage |-> "none"]
    /\ tobs = [written |-> <<>>, op |-> "new"]

\* tbl.Write(&str)
DoWriteString ==
    /\ tobs.op = "new"
    /\ \E str \in Strings :
          /\ objs' = [objs EXCEPT ![1] = TableWriteRow(objs[1], "list", <<str>>)]
          /\ tobs' = [written |-> <<str>>, op |-> "Write"]
    /\ UNCHANGED <<file, fobs, rfile, iobs, rowsVars, hdrVars>>

\* rows.Scan(&str) on the row that was written
DoReadString ==
    /\ tobs.op = "Write"
    /\ tobs' = [written |-> tobs.written, op |-> "Scan", vals |-> ScanRow(objs[1], 0)]
    /\ UNCHANGED <<fileVars, rfile, iobs, rowsVars, hdrVars>>

NextSpecString == DoWriteString \/ DoReadString

SpecString == InitString /\ [][NextSpecString]_vars

\* The width of the string column of the table.
Width == objs[1].cols[1].dtype.dsize

\* C18: a string s written to a string column of width w of a binary table
\* is read back as s when len(s) <= w and as the first w characters of s
\* when len(s) > w.
C18_StringRoundTrip ==
    tobs.op = "Scan" =>
        tobs.vals[1] = IF Len(tobs.written[1]) <= Width THEN tobs.written[1]
                       ELSE SubSeq(tobs.written[1], 1, Width)

----------------------------------------------------------------------------
(* NewImage for images of many axes.                                       *)

\* The largest number of axes the NAXIS card of a FITS header can announce.
MaxNAXIS == 999

\* The panic the test of NewImage expects for more axes than MaxNAXIS.
ErrTooManyAxes == "fitsio: too many axes"

\* The BITPIX values of the images.
Bitpixes == {8, 16, 32, 64, -32, -64}

\* The numbers of axes the program asks for, around MaxNAXIS.
AxesCounts == {0, 1, 2, MaxNAXIS - 1, MaxNAXIS, MaxNAXIS + 1, MaxNAXIS + 2}

\* What NewImage does to its caller: newHeader panics with the error of
\* Header.Append, NewHeader with the error of Header.prepend; nothing looks
\* at the number of axes.
newImageErr(bitpix, axes) ==
    IF HeaderAppend(<<>>, <<>>).err # ErrNil THEN ErrPanic
    ELSE IF HeaderPrepend(newHeader(<<>>, IMAGE_HDU, bitpix, axes).cards,
                          defaultCards(newHeader(<<>>, IMAGE_HDU, bitpix, axes))).err # ErrNil
    THEN ErrPanic
    ELSE ErrNil

InitNewImage ==
    /\ RowsIdle
    /\ HeaderIdle
    /\ objs = <<>>
    /\ file = [open |-> FALSE]
    /\ fobs = [err |-> "none"]
    /\ rfile = [open |-> FALSE]
    /\ \E bitpix \in Bitpixes, n \in AxesCounts, len \in 0..1 :
          iobs = [stage |-> "none", bitpix |-> bitpix, axes |-> [k \in 1..n |-> len]]
    /\ tobs = [written |-> <<>>]

\* img := fitsio.NewImage(bitpix, axes)
DoNewImage ==
    /\ iobs.stage = "none"
    /\ \E err \in {newImageErr(iobs.bitpix, iobs.axes)} :
          /\ objs' = IF err = ErrNil THEN <<NewImage(iobs.bitpix, iobs.axes)>> ELSE <<>>
          /\ fobs' = [err |-> err]
    /\ iobs' = [iobs EXCEPT !.stage = "new"]
    /\ UNCHANGED <<file, rfile, tobs, rowsVars, hdrVars>>

\* img.Header().Axes() and the NAXIS card of the image
DoAxes ==
    /\ iobs.stage = "new" /\ objs # <<>>
    /\ iobs' = [iobs EXCEPT !.stage = "axes"]
    /\ fobs' = [err |-> ErrNil, naxes |-> Len(objs[1].hdr.axes),
                naxis |-> HeaderValue(objs[1].hdr.cards, "NAXIS").v]
    /\ UNCHANGED <<objs, file, rfile, tobs, rowsVars, hdrVars>>

NextSpecNewImage == DoNewImage \/ DoAxes

SpecNewImage == InitNewImage /\ [][NextSpecNewImage]_vars

\* C21: NewImage called with a list of more than MaxNAXIS axes fails with a
\* 'too many axes' error and returns no image.
C21_TooManyAxesRejected ==
    (iobs.stage = "new" /\ Len(iobs.axes) > MaxNAXIS) =>
        /\ fobs.err = ErrTooManyAxes
        /\ objs = <<>>

----------------------------------------------------------------------------
(* The heap of a binary table, byte by byte: Table.Write of a              *)
(* variable-length array on a table from NewTable and on a table that Open *)
(* decoded.                                                                *)

\* The longest array the program writes in a cell.
MaxSlice == 2

\* The bytes of the arrays.
SliceValues == {1, 2, 3}

\* The arrays the program writes: up to MaxSlice bytes.
Slices == UNION {[1..n -> SliceValues] : n \in 0..MaxSlice}

\* The descriptor of an array in the row: its length and its offset in the
\* heap, 32 bits each.
descriptor(n, offset) == putBE(n, 4) \o putBE(offset, 4)

\* The cards of a binary table of one row with one column of arrays of
\* bytes and a heap of pcount bytes.
HeapCards(pcount) ==
    << Card("XTENSION", StrV("BINTABLE"), ""), Card("BITPIX", IntV(8), ""),
       Card("NAXIS", IntV(2), ""), Card("NAXIS1", IntV(8), ""),
       Card("NAXIS2", IntV(1), ""), Card("PCOUNT", IntV(pcount), ""),
       Card("GCOUNT", IntV(1), ""), Card("TFIELDS", IntV(1), ""),
       Card("TTYPE1", StrV("hits"), ""), Card("TFORM1", StrV("1PB"), "") >>

\* The HDU of a stream that holds the table with the array `vals` in its row.
HeapSegment(vals) ==
    Segment(HeapCards(Len(vals)), descriptor(Len(vals), 0) \o vals)

\* The slices loadTable takes of the block it read: data := block[:datasz]
\* keeps the capacity of the block, heap := block[datasz+gapsz:] runs to the
\* end of the block, over the same array.  The table with the bytes of its
\* heap, the bytes of the block past its data (room) and what of the block
\* data and heap still share.
loadHeap(t, seg) ==
    t @@ [heapb |-> SubSeq(seg.bytes \o Zeros(seg.end - seg.doff - Len(seg.bytes)),
                           t.data + (seg.end - seg.doff - t.data - t.heap) + 1,
                           seg.end - seg.doff),
          gap |-> seg.end - seg.doff - t.data - t.heap,
          room |-> seg.end - seg.doff - t.data,
          grown |-> 0, dataInBlock |-> TRUE, heapInBlock |-> TRUE]

\* NewTable: data and heap are two new arrays of capacity 0.
newHeap(t) ==
    WithBytes(t) @@ [heapb |-> <<>>, gap |-> 0, room |-> 0, grown |-> 0,
                     dataInBlock |-> FALSE, heapInBlock |-> FALSE]

\* The first statement of Table.Write, t.data = append(t.data, make([]byte,
\* t.rowsz)...): while the data are in the block loadTable read and the block
\* has room, the zeros are written in the block, over the bytes of the heap
\* that lie there; otherwise the data move to a new array.
growData(t) ==
    IF t.dataInBlock /\ t.room >= t.rowsz
    THEN [t EXCEPT !.bytes = @ \o Zeros(t.rowsz), !.data = @ + t.rowsz,
                   !.room = @ - t.rowsz, !.grown = @ + t.rowsz,
                   !.heapb = IF t.heapInBlock
                             THEN [j \in 1..Len(@) |->
                                     IF t.grown <= t.gap + j - 1
                                        /\ t.gap + j - 1 < t.grown + t.rowsz
                                     THEN 0 ELSE @[j]]
                             ELSE @]
    ELSE [t EXCEPT !.bytes = @ \o Zeros(t.rowsz), !.data = @ + t.rowsz,
                   !.dataInBlock = FALSE]

\* Column.writeBin of an array: the descriptor is written in the row, the
\* elements are appended to the heap, which moves to a new array when it was
\* the end of the block.
writeSlice(t, vals) ==
    [t EXCEPT !.bytes = putCell(@, t.rowsz * t.nrows, descriptor(Len(vals), Len(t.heapb))),
              !.heapb = @ \o vals,
              !.heap = @ + Len(vals),
              !.heapInBlock = @ /\ vals = <<>>,
              !.nrows = @ + 1,
              !.hdr.axes[2] = @ + 1]

\* Column.readBin of an array: the elements the descriptor of the row
\* points at in the heap.
readSlice(t, irow) ==
    SubSeq(t.heapb,
           intBE(SubSeq(t.bytes, t.rowsz * irow + 5, t.rowsz * irow + 8)) + 1,
           intBE(SubSeq(t.bytes, t.rowsz * irow + 5, t.rowsz * irow + 8))
               + intBE(SubSeq(t.bytes, t.rowsz * irow + 1, t.rowsz * irow + 4)))

InitHeap ==
    /\ RowsIdle
    /\ HeaderIdle
    /\ file = [open |-> FALSE]
    /\ fobs = [err |-> "none"]
    /\ rfile = [open |-> FALSE]
    /\ iobs = [stage |-> "none"]
    /\ \/ /\ objs = <<newHeap(NewTable("events", <<Column("hits", "1PB")>>, BINARY_TBL))>>
          /\ tobs = [written |-> <<>>, op |-> "NewTable"]
       \/ \E vals \in Slices :
             /\ objs = <<loadHeap(DecodeHDU(HeapSegment(vals)).hdu, HeapSegment(vals))>>
             /\ tobs = [written |-> <<vals>>, op |-> "Open"]

\* tbl.Write(&vals)
DoWriteSlice ==
    /\ objs[1].nrows < MaxTableRows
    /\ \E vals \in Slices :
          /\ objs' = <<writeSlice(growData(objs[1]), vals)>>
          /\ tobs' = [written |-> Append(tobs.written, vals), op |-> "Write"]
    /\ UNCHANGED <<file, fobs, rfile, iobs, rowsVars, hdrVars>>

\* tbl.Write(), which returns an error
DoWriteNothing ==
    /\ objs[1].data < (MaxTableRows + 1) * objs[1].rowsz
    /\ objs' = <<growData(objs[1])>>
    /\ tobs' = [written |-> tobs.written, op |-> "Write"]
    /\ UNCHANGED <<file, fobs, rfile, iobs, rowsVars, hdrVars>>

\* rows.Scan(&vals) on a row of the table
DoScanSlice ==
    /\ \E irow \in 0..(objs[1].nrows - 1) :
          tobs' = [written |-> tobs.written, op |-> "Scan", irow |-> irow,
                   vals |-> readSlice(objs[1], irow)]
    /\ UNCHANGED <<fileVars, rfile, iobs, rowsVars, hdrVars>>

NextSpecHeap == DoWriteSlice \/ DoWriteNothing \/ DoScanSlice

SpecHeap == InitHeap /\ [][NextSpecHeap]_vars

\* C24: every Table.Write leaves the bytes already in the heap and the rows
\* already in the table as they were: the heap before the call is a prefix
\* of the heap after it, and so are the rows, for a table created by
\* NewTable and for a table decoded by Open.
C24_HeapOnlyGrows ==
    [][/\ IsPrefix(objs[1].heapb, objs'[1].heapb)
       /\ IsPrefix(SubSeq(objs[1].bytes, 1, objs[1].rowsz * objs[1].nrows),
                   objs'[1].bytes)]_vars

----------------------------------------------------------------------------
(* Image.Write with slices of every element type, on an image that may     *)
(* hold pixels already.                                                    *)

\* The axes of the images: none, one pixel, two pixels.
WriteAxes == {<<>>, <<1>>, <<2>>}

InitImageWrite ==
    /\ RowsIdle
    /\ HeaderIdle
    /\ \E bitpix \in {8, 16, -32}, axes \in WriteAxes :
          objs = <<WithBytes(NewImage(bitpix, axes))>>
    /\ file = [open |-> FALSE]
    /\ fobs = [op |-> "NewImage", err |-> ErrNil, calls |-> 0]
    /\ rfile = [open |-> FALSE]
    /\ iobs = [stage |-> "none"]
    /\ tobs = [written |-> <<>>]

\* img.Write(&data), data a slice of any of the element types
DoImageWriteSlice ==
    /\ fobs.calls < MaxWrites
    /\ \E etype \in ElemTypes :
          \E data \in [1..Product(objs[1].hdr.axes) -> ElemValues[etype]] :
              \E w \in {ImageWrite(objs[1], etype, data)} :
                  /\ objs' = <<w.hdu>>
                  /\ fobs' = [op |-> "Write", err |-> w.err, calls |-> fobs.calls + 1,
                              etype |-> etype, before |-> objs[1].bytes]
    /\ UNCHANGED <<file, rfile, iobs, tobs, rowsVars, hdrVars>>

\* img.Raw()
DoRaw ==
    /\ fobs.op = "Write"
    /\ fobs' = [op |-> "Raw", err |-> ErrNil, calls |-> fobs.calls, raw |-> objs[1].bytes]
    /\ UNCHANGED <<objs, file, rfile, iobs, tobs, rowsVars, hdrVars>>

NextSpecImageWrite == DoImageWriteSlice \/ DoRaw

SpecImageWrite == InitImageWrite /\ [][NextSpecImageWrite]_vars

\* C28: Image.Write called with a slice whose element type does not match
\* the BITPIX of the image returns an error and leaves the pixels of the
\* image as they were before the call.
C28_MismatchKeepsPixels ==
    (fobs.op = "Write" /\ ElemBitpix[fobs.etype] # objs[1].hdr.bitpix) =>
        /\ fobs.err # ErrNil
        /\ objs[1].bytes = fobs.before

----------------------------------------------------------------------------
(* The header lines of an HDU whose header the program changed: the HDU is *)
(* made with NewImage or decoded by Open, cards are added with Append and  *)
(* Set, the HDU is written to a new file and read back.                    *)

\* The END card.
EndCard == Card("END", NilV, "")

\* EncodeHDU: one line for each card of hdr.cards, in order, then the line
\* of an END card.  A line is given as the card it holds.
headerLines(cards) == cards \o <<EndCard>>

\* The loop of DecodeHDU over the lines: every line up to the first END line
\* gives a card, the END card included; the lines after it are not read.
readLines(lines) ==
    LET ends == {k \in 1..Len(lines) : lines[k].Name = "END"}
    IN  SubSeq(lines, 1, CHOOSE k \in ends : \A j \in ends : k <= j)

\* The number of END lines among the lines.
endLines(lines) == Cardinality({k \in 1..Len(lines) : lines[k].Name = "END"})

\* The number of calls of Append and Set on the header.
MaxEdits == 2

\* The cards the program adds.
EditCards ==
    { Card(n, StrV(v), "") : n \in {"OBJECT", "OBSERVER", "ORIGIN"}, v \in {"a", "b"} }

\* The HDUs the program starts from: an image of NewImage, and the primary
\* HDU Open decodes from a stream.
ReopenPool ==
    { WithBytes(NewImage(8, <<2>>)),
      DecodeHDU(Segment(PrimaryCards(2), <<1, 2>>)).hdu,
      DecodeHDU(Segment(PrimaryCards(1), <<7>>)).hdu }

InitReopen ==
    /\ RowsIdle
    /\ HeaderIdle
    /\ \E hdu \in ReopenPool : objs = <<hdu>>
    /\ file = Create
    /\ fobs = [stage |-> "held", edits |-> 0, err |-> ErrNil]
    /\ rfile = [open |-> FALSE]
    /\ iobs = [stage |-> "none"]
    /\ tobs = [written |-> <<>>]

\* hdu.Header().Append(card)
DoAppendCard ==
    /\ fobs.stage = "held" /\ fobs.edits < MaxEdits
    /\ \E card \in EditCards :
          \E a \in {HeaderAppend(objs[1].hdr.cards, <<card>>)} :
              /\ objs' = [objs EXCEPT ![1].hdr.cards = a.cards]
              /\ fobs' = [fobs EXCEPT !.edits = @ + 1, !.err = a.err]
    /\ UNCHANGED <<file, rfile, iobs, tobs, rowsVars, hdrVars>>

\* hdu.Header().Set(name, value, comment)
DoSetCard ==
    /\ fobs.stage = "held" /\ fobs.edits < MaxEdits
    /\ \E card \in EditCards :
          /\ objs' = [objs EXCEPT ![1].hdr.cards =
                          HeaderSet(@, card.Name, card.Value, card.Comment)]
          /\ fobs' = [fobs EXCEPT !.edits = @ + 1, !.err = ErrNil]
    /\ UNCHANGED <<file, rfile, iobs, tobs, rowsVars, hdrVars>>

\* f.Write(hdu), on the file Create returned
DoWriteHeld ==
    /\ fobs.stage = "held"
    /\ \E w \in {FileWrite(file, objs[1], 1)} :
          /\ file' = w.file
          /\ objs' = <<w.hdu>>
          /\ fobs' = [stage |-> IF w.err = ErrNil THEN "written" ELSE "failed",
                      edits |-> fobs.edits, err |-> w.err,
                      lines |-> headerLines(w.hdu.hdr.cards)]
    /\ UNCHANGED <<rfile, iobs, tobs, rowsVars, hdrVars>>

\* Open(r) on the bytes that were written, and Header() of its HDU
DoReadBack ==
    /\ fobs.stage = "written"
    /\ fobs' = [fobs EXCEPT !.stage = "read"]
    /\ rfile' = [open |-> TRUE, cards |-> readLines(fobs.lines)]
    /\ UNCHANGED <<objs, file, iobs, tobs, rowsVars, hdrVars>>

NextSpecReopen == DoAppendCard \/ DoSetCard \/ DoWriteHeld \/ DoReadBack

SpecReopen == InitReopen /\ [][NextSpecReopen]_vars

\* C26: the header lines File.Write emits for an HDU hold exactly one END
\* line, and it comes after every other card, also when cards were added with
\* Append or Set to a header Open returned; every card of the header is in
\* the header that is read back.
C26_OneEndLineLast ==
    /\ fobs.stage \in {"written", "read"} =>
          /\ endLines(fobs.lines) = 1
          /\ fobs.lines[Len(fobs.lines)].Name = "END"
    /\ fobs.stage = "read" =>
          \A k \in 1..Len(objs[1].hdr.cards) :
              objs[1].hdr.cards[k].Name # "END" =>
                  \E j \in 1..Len(rfile.cards) : rfile.cards[j] = objs[1].hdr.cards[k]

----------------------------------------------------------------------------
(* CopyHDU from a file that was opened to a file that was created.         *)

\* The number of calls of CopyHDU.
MaxCopies == 3

\* The primary HDUs of the sources.
SourcePrimaries == { Segment(PrimaryCards(2), <<1, 2>>), Segment(PrimaryCards(1), <<7>>) }

\* The extensions of the sources: image extensions, and binary tables
\* without and with a THEAP card.
SourceExtensions ==
    { Segment(ExtensionCards(2), <<3, 4>>),
      Segment(ExtensionCards(1), <<5>>),
      Segment(TableCards(8), Zeros(8)),
      Segment(TableCards(8) \o <<Card("THEAP", IntV(0), "")>>, Zeros(8)) }

\* The sources: a primary HDU, then extensions, MaxHDUs HDUs at most.
Sources ==
    { segs \in UNION {[1..n -> SourcePrimaries \cup SourceExtensions] : n \in 1..MaxHDUs} :
        /\ segs[1] \in SourcePrimaries
        /\ \A k \in 2..Len(segs) : segs[k] \in SourceExtensions }

InitCopyHDU ==
    /\ RowsIdle
    /\ HeaderIdle
    /\ objs = <<WithBytes(NewImage(8, <<2>>))>>
    /\ file = Create
    /\ \E segs \in Sources : rfile = Open([len |-> 0, hdus |-> segs])
    /\ fobs = [op |-> "Open", err |-> ErrNil, calls |-> 0]
    /\ iobs = [stage |-> "none"]
    /\ tobs = [written |-> <<>>]

\* dst.Write(img), for an image the program made
DoWriteOwn ==
    /\ file.hdus = <<>> /\ fobs.op = "Open"
    /\ \E w \in {FileWrite(file, objs[1], 1)} :
          /\ file' = w.file
          /\ objs' = <<w.hdu>>
          /\ fobs' = [op |-> "Write", err |-> w.err, calls |-> fobs.calls]
    /\ UNCHANGED <<rfile, iobs, tobs, rowsVars, hdrVars>>

\* CopyHDU(dst, src, i): src.HDU(i) is the HDU the source holds, not a copy,
\* and dst.Write works on it.
DoCopyHDU ==
    /\ fobs.calls < MaxCopies
    /\ \E i \in 0..(Len(rfile.hdus) - 1) :
          \E w \in {FileWrite(file, rfile.hdus[i + 1], Len(objs) + i + 1)} :
              /\ file' = w.file
              /\ rfile' = [rfile EXCEPT !.hdus[i + 1] = w.hdu]
              /\ fobs' = [op |-> "CopyHDU", err |-> w.err, calls |-> fobs.calls + 1,
                          i |-> i, before |-> rfile.hdus[i + 1]]
    /\ UNCHANGED <<objs, iobs, tobs, rowsVars, hdrVars>>

NextSpecCopyHDU == DoWriteOwn \/ DoCopyHDU

SpecCopyHDU == InitCopyHDU /\ [][NextSpecCopyHDU]_vars

\* C27: CopyHDU(dst, src, i) leaves the i-th HDU of src as it was, its cards
\* and its payload, whether the call returns nil or an error.
C27_SourceUnchanged ==
    fobs.op = "CopyHDU" => rfile.hdus[fobs.i + 1] = fobs.before

----------------------------------------------------------------------------
(* The sizes of the tables Open decodes.                                   *)

\* The integer value of the card `name` of the header, 0 without the card.
announcedInt(cards, name) ==
    IF HeaderHas(cards, name) THEN HeaderValue(cards, name).v ELSE 0

\* C29: for every table Open decodes, the heap of the table has PCOUNT -
\* THEAP bytes and its data NAXIS1 * NAXIS2 bytes; the padding of the block
\* is part of neither.
C29_HeapIsAnnounced ==
    (rfile.open /\ "hdus" \in DOMAIN rfile) =>
        \A k \in 1..Len(rfile.hdus) :
            IsTable(rfile.hdus[k]) =>
                LET cards == rfile.hdus[k].hdr.cards
                IN  /\ rfile.hdus[k].heap =
                          announcedInt(cards, "PCOUNT") - announcedInt(cards, "THEAP")
                    /\ rfile.hdus[k].data =
                          announcedInt(cards, "NAXIS1") * announcedInt(cards, "NAXIS2")

----------------------------------------------------------------------------
(* The cursor of ReadRange under a caller that keeps calling Next.  The    *)
(* positions of the cursor are int64 values: the additions of Next wrap    *)
(* around, which the model keeps with a narrower width.                    *)

\* The width of the positions of the cursor, in bits.
IntBits == 4

\* A sum of two positions, as the two's complement addition gives it.
wrap(x) == ((x + 2^(IntBits - 1)) % 2^IntBits) - 2^(IntBits - 1)

\* Rows.Next with the additions of the machine: the cursor after the call.
NextRowsWrapped(r) ==
    IF r.closed THEN r
    ELSE LET moved == [r EXCEPT !.cur = wrap(r.cur + r.inc), !.i = wrap(r.i + r.inc)]
         IN  IF r.i < r.n THEN moved
             ELSE [CloseRows(moved) EXCEPT !.err = ErrNil]

InitRowsLive ==
    /\ HeaderIdle
    /\ FileIdle
    /\ ImageIdle
    /\ rows = NoRows
    /\ \E nr \in 0..MaxRows, nc \in 1..MaxCols : rtab = [nrows |-> nr, ncols |-> nc, bad |-> {}]
    /\ robs = [op |-> "none"]

\* rows, err := t.ReadRange(beg, end, inc)
DoReadRange ==
    /\ ~rows.open
    /\ \E beg \in -1..MaxRows, end \in -1..(MaxRows + 1), inc \in -MaxStride..MaxStride :
          /\ rows' = [ReadRangeRows(rtab, beg, end, inc) EXCEPT !.cur = wrap(@)]
          /\ robs' = [op |-> "ReadRange", inc |-> inc, ret |-> TRUE, tick |-> 0]
    /\ UNCHANGED <<rtab, hdrVars, fileVars, imgVars>>

\* rows.Next(), in the loop of the caller; tick tells a call from the one
\* before it.
DoNext ==
    /\ rows.open
    /\ rows' = NextRowsWrapped(rows)
    /\ robs' = [robs EXCEPT !.op = "Next", !.ret = NextResult(rows), !.tick = 1 - @]
    /\ UNCHANGED <<rtab, hdrVars, fileVars, imgVars>>

NextSpecRowsLive == DoReadRange \/ DoNext

\* The caller calls Next again as long as it can.
SpecRowsLive == InitRowsLive /\ [][NextSpecRowsLive]_vars /\ WF_vars(DoNext)

\* C30: for every table and every beg, end and stride given to ReadRange,
\* a zero or a negative stride included, a caller that keeps calling Next
\* gets false after finitely many calls.
C30_NextEndsIteration ==
    rows.open ~> (robs.op = "Next" /\ ~robs.ret)

====
